---------------------------- MODULE Spec2Model ----------------------------
(***************************************************************************)
(* A model of the MCP server core of ghbountybot/mcp:                      *)
(*                                                                         *)
(*   - the resource subscription engine: BasicService::subscribe and       *)
(*     unsubscribe (mcp/src/basic_service.rs), the resource registry       *)
(*     lookup (mcp/src/registry/resource.rs) and the in-memory source      *)
(*     MemoryResource (mcp/src/resources/memory.rs), together with the     *)
(*     watcher tasks that tokio runs for them;                             *)
(*   - the JSON-RPC message pump McpImpl::message_handler                  *)
(*     (mcp/src/rpc.rs);                                                   *)
(*   - the MCP message pump McpServer::handle_message                      *)
(*     (mcp/src/server.rs).                                                *)
(*                                                                         *)
(* Each subsystem has its own next-state relation and specification; the   *)
(* variables of the other subsystems stay unchanged under it.              *)
(***************************************************************************)
EXTENDS Integers, Sequences, FiniteSets, TLC

(***************************************************************************)
(* Bounds of the model.                                                    *)
(***************************************************************************)
\* The number of watcher tasks ever spawned (tokio::spawn calls).
MaxTasks == 2
\* The number of MemoryResource::set calls per resource.
MaxSets == 2
\* The number of messages posted to McpImpl::message_handler.
MaxReqs == 2
\* The number of messages posted to McpServer::handle_message.
MaxMsgs == 3
\* The number of register calls made on the tool registries.
MaxRegs == 2
\* The number of responses the message handler broadcasts.
MaxPosts == 4
\* The capacity the broadcast channel is modelled with; the servers create
\* it with broadcast::channel(100) (rpc.rs:352, server.rs:251).
ChannelCapacity == 2
\* The requests handle_request is given.
MaxRoutes == 2
\* The number of calls made on the McpClient.
MaxCalls == 3

(***************************************************************************)
(* The resource registry and the URIs a client may name.                   *)
(***************************************************************************)
\* URIs registered with register_fixed, each backed by its own MemoryResource.
FixedUris == {"a", "b"}
\* A URI that equals no registered fixed URI.
UnknownUris == {"x"}
Uris == FixedUris \cup UnknownUris

TaskIds == 1..MaxTasks
\* The clients that may open an SSE connection.
SseListeners == {1, 2}

VARIABLES
    \* --- BasicService (basic_service.rs:9-22) ---
    state_set,              \* state: Option<State> is Some
    handler_set,            \* notification_handler: Option<..> is Some
    template_resources,     \* ResourceRegistry::template_resources
    resource_subscriptions, \* the map uri -> JoinHandle (a task id)
    \* --- tokio tasks spawned by subscribe ---
    tasks,                  \* task id -> [uri, pc, late]; late: woken by a set() that
                            \* began after unsubscribe(uri) and before any new subscribe(uri)
    next_task,              \* the id the next tokio::spawn gets
    \* --- MemoryResource of each fixed uri (memory.rs:8-11) ---
    contents,               \* the number of the set() call whose contents are stored
    set_pc,                 \* the host's position inside set(): "idle" | "notify"
    set_late,               \* the set() call in progress began while the uri was unsubscribed
    \* --- what the notification handler and the callers have seen ---
    last_notification,      \* the resourceUpdated last passed to the handler
    owed,                   \* a set() on a subscribed uri not yet followed by a notification
    sub_result,             \* the last request made of the service and its outcome:
                            \* [request, uri, outcome]
    waited,                 \* a wait_for_change(uri) has completed since the last
                            \* resourceUpdated{uri}
    \* --- McpImpl (rpc.rs:138-141) and its requests ---
    handlers,   \* McpImpl::handlers: the methods a HandlerFn is registered for
    reqs,       \* the requests received, in order of arrival:
                \*   [id, jsonrpc, method, params, st, cancelled, dup]
    replies,    \* the responses sent on tx and returned, in order:
                \*   [req, id, code, by]
    \* --- McpServer's AppState (server.rs:465-474) and its messages ---
    srv_tools,  \* ToolRegistry::tools: the names of the registered tools
    srv_lock,   \* the message whose task holds the registry Mutex, 0 when free
    srv_msgs,   \* the messages posted to /api/message, in order of arrival:
                \*   [id, method, params, st]
    srv_replies, \* the responses broadcast and returned, in order: [req, msg]
    \* --- the tool registries and the calls made on them ---
    tools,         \* ToolRegistry::tools (tool.rs:108-110): name -> handler
    tool_registry, \* HandlerRegistry::handlers of BasicService::tool_registry
                   \* (registry/mod.rs:85-87): name -> handler
    builder_tools, \* ToolRegistry::tools (builder/registry.rs:12-15): name -> handler
    reg_log,       \* the register calls made so far, in order: [on, name, handler]
    svc_result,    \* what the last list or call operation gave its caller, and
                   \* after how many register calls (at)
    \* --- the broadcast channel and the SSE connections ---
    sse_kind,   \* whose channel it is: "McpImpl" (rpc.rs) or "McpServer" (server.rs)
    chan,       \* the messages the channel has accepted, oldest first; the last
                \* ChannelCapacity of them are retained
    posts,      \* the number of responses built by the message handler so far
    post_pc,    \* the handler's position: "idle" | "sending" (at tx.send)
    post_log,   \* per response, the listeners connected when it was sent
    listeners,  \* listener -> [pc, start, next, events, lagged]
    \* --- ResourceBuilder (registry/resource.rs:222-229) and what build gave ---
    builder,  \* the builder's Options: [uri, name, description, mime_type, source]
    built, \* the Result of build(): [outcome, code, message, resource]
    \* --- the wire codec: serde_json on JsonRpcMessage (rpc.rs) and McpMessage (message.rs) ---
    original,  \* the message to be sent
    wire,  \* Some(its JSON text) once serialised
    decoded, \* Some(what the text deserialises into)
    \* --- handle_request (lib.rs:82-142) on any Service ---
    route_log, \* the requests handled, in order: [request, called, outcome, variant]
    \* --- BasicService's name and version (basic_service.rs:12-13) and its answer to initialize ---
    server_info,  \* [name, version] of the service
    init_result, \* the last initialize: [client_params, outcome, result]
    \* --- McpClient (client.rs:166-170), the calls made on it and the messages it has posted ---
    initialized,  \* the bool inside McpClient::initialized
    initialized_guard,  \* the call that holds the Mutex of initialized, 0 when free
    calls,  \* the calls made on the client, in order: [op, pc, result]
    outbox, \* the messages posted to the server, in order: [call, method, answered]
    \* --- BasicService::prompt_registry (basic_service.rs:17) ---
    prompt_registry  \* HandlerRegistry::handlers of the PromptRegistry: name -> handler

subVars == <<state_set, handler_set, template_resources, resource_subscriptions,
             tasks, next_task, contents, set_pc, set_late, last_notification, owed,
             sub_result, waited>>
rpcVars == <<handlers, reqs, replies>>
srvVars == <<srv_tools, srv_lock, srv_msgs, srv_replies>>
svcVars == <<tools, tool_registry, builder_tools, reg_log, svc_result>>
sseVars == <<sse_kind, chan, posts, post_pc, post_log, listeners>>
bldVars == <<builder, built>>
codecVars == <<original, wire, decoded>>
routeVars == <<route_log>>
helloVars == <<server_info, init_result>>
cliVars == <<initialized, initialized_guard, calls, outbox>>
promptVars == <<prompt_registry>>
\* The parts of the crate modelled further down.
extVars == <<bldVars, codecVars, routeVars, helloVars, cliVars, promptVars>>
vars == <<subVars, rpcVars, srvVars, svcVars, sseVars, extVars>>

\* What the actions of one subsystem leave alone.
subFrame == <<rpcVars, srvVars, svcVars, sseVars, extVars>>
rpcFrame == <<subVars, srvVars, svcVars, sseVars, extVars>>
srvFrame == <<subVars, rpcVars, svcVars, sseVars, extVars>>
sseFrame == <<subVars, rpcVars, srvVars, svcVars, extVars>>
\* Of BasicService, the tool calls read state and nothing else.
svcFrame == <<handler_set, template_resources, resource_subscriptions, tasks, next_task,
              contents, set_pc, set_late, last_notification, owed, sub_result, waited,
              rpcVars, srvVars, sseVars, extVars>>
\* The variables of the subsystems above.
coreVars == <<subVars, rpcVars, srvVars, svcVars, sseVars>>
bldFrame == <<coreVars, codecVars, routeVars, helloVars, cliVars, promptVars>>
codecFrame == <<coreVars, bldVars, routeVars, helloVars, cliVars, promptVars>>
routeFrame == <<coreVars, bldVars, codecVars, helloVars, cliVars, promptVars>>
helloFrame == <<coreVars, bldVars, codecVars, routeVars, cliVars, promptVars>>
cliFrame == <<coreVars, bldVars, codecVars, routeVars, helloVars, promptVars>>

\* Option<T>: None is the empty set, Some(n) is {n}.
None == {}
Some(n) == {n}
Unwrap(option) == CHOOSE v \in option : TRUE

NoNotification == [uri |-> "none", late |-> FALSE, unwaited |-> FALSE, dropped |-> FALSE]
\* No request has been made of the service yet.
NoSubResult == [request |-> "none", uri |-> "none", outcome |-> "none"]
\* A client that has not connected.
NoListener == [pc |-> "off", start |-> 0, next |-> 0, events |-> <<>>, lagged |-> FALSE]
\* No list or call operation has been made yet.
NoResult == [on |-> "none", request |-> "none", name |-> "none", outcome |-> "none",
             code |-> 0, by |-> 0, given |-> "none", args |-> "none", list |-> <<>>,
             at |-> 0, message |-> "", returned |-> "none"]
UnbornTask == [uri |-> "none", pc |-> "unborn", late |-> FALSE, cause |-> 0]
\* A dropped task holds nothing any more.
DeadTask == [uri |-> "none", pc |-> "dead", late |-> FALSE, cause |-> 0]

\* ResourceBuilder::new (registry/resource.rs:232-234): Default, every
\* Option None.
ResourceBuilder_new ==
    [uri |-> None, name |-> None, description |-> None, mime_type |-> None, source |-> None]
\* build has not been called on the builder.
NoBuilt == [outcome |-> "none", code |-> 0, message |-> "", resource |-> None]

\* No message has been handed to the codec.
NoMessage == [type |-> "none"]

\* BasicService::new (basic_service.rs:37-38): the name and the version a
\* service starts with.
DefaultInfo == [name |-> "unnamed", version |-> "0.1.0"]
\* No initialize request has been answered.
NoInit == [client_params |-> None, outcome |-> "none", result |-> None]

(***************************************************************************)
(* A watcher task is the async block of subscribe (basic_service.rs:245).  *)
(* Its positions:                                                          *)
(*   "arming"   spawned or back at the head of the loop: the Notified      *)
(*              future of wait_for_change is not yet created               *)
(*   "waiting"  parked on Notify::notified()                               *)
(*   "woken"    notify_waiters() has completed its wait; the handler call  *)
(*              of line 250 comes next                                     *)
(*   "draining" aborted while its poll was running: tokio lets the poll    *)
(*              finish, so the handler call still happens, and drops the   *)
(*              task at the next suspension                                *)
(*   "dead"     aborted and dropped                                        *)
(***************************************************************************)
Spawned(t) == tasks[t].pc # "unborn"
\* A task that runs and has not been aborted.
Live(t) == tasks[t].pc \in {"arming", "waiting", "woken"}
WatchersOf(u) == {t \in TaskIds : Live(t) /\ tasks[t].uri = u}
Subscribed(u) == u \in DOMAIN resource_subscriptions

\* ResourceRegistry::get_source: "ok" for a fixed uri; for any other uri the
\* templates are searched with template_uri_matches, which is todo!() and
\* panics on its first call; with no template the lookup fails with 404.
get_source(u) ==
    IF u \in FixedUris THEN "ok"
    ELSE IF template_resources # <<>> THEN "panic"
    ELSE "err404"

\* HashMap::insert(uri, handle): the handle stored before is returned and
\* dropped, and dropping a JoinHandle detaches its task.
\* An insert that keeps the value a key already has.
MapInsertIfAbsent(m, u, t) == [v \in (DOMAIN m) \cup {u} |-> IF v \in DOMAIN m THEN m[v] ELSE t]
MapInsert(m, u, t) == [v \in (DOMAIN m) \cup {u} |-> IF v = u THEN t ELSE m[v]]
\* A remove that empties the map when the key is absent.
MapRemoveOrClear(m, u) == IF u \in DOMAIN m THEN [v \in (DOMAIN m) \ {u} |-> m[v]] ELSE <<>>
\* HashMap::remove(uri): the other entries stay, and an absent key removes nothing.
MapRemove(m, u) == [v \in (DOMAIN m) \ {u} |-> m[v]]

SubInit ==
    /\ state_set \in BOOLEAN
    /\ handler_set \in BOOLEAN
    /\ template_resources \in {<<>>, <<"tpl">>}
    /\ resource_subscriptions = <<>>
    /\ tasks = [t \in TaskIds |-> UnbornTask]
    /\ next_task = 1
    /\ contents = [u \in FixedUris |-> 0]
    /\ set_pc = [u \in FixedUris |-> "idle"]
    /\ set_late = [u \in FixedUris |-> FALSE]
    /\ last_notification = NoNotification
    /\ owed = [u \in FixedUris |-> FALSE]
    /\ sub_result = NoSubResult
    /\ waited = [u \in FixedUris |-> FALSE]
    /\ handlers = {}
    /\ reqs = <<>>
    /\ replies = <<>>
    /\ srv_tools = {}
    /\ srv_lock = 0
    /\ srv_msgs = <<>>
    /\ srv_replies = <<>>
    /\ tools = <<>>
    /\ tool_registry = <<>>
    /\ builder_tools = <<>>
    /\ reg_log = <<>>
    /\ svc_result = NoResult
    /\ sse_kind = "McpImpl"
    /\ chan = <<>>
    /\ posts = 0
    /\ post_pc = "idle"
    /\ post_log = <<>>
    /\ listeners = [l \in SseListeners |-> NoListener]
    /\ builder = ResourceBuilder_new
    /\ built = NoBuilt
    /\ original = NoMessage
    /\ wire = None
    /\ decoded = None
    /\ route_log = <<>>
    /\ server_info = DefaultInfo
    /\ init_result = NoInit
    /\ initialized = FALSE
    /\ initialized_guard = 0
    /\ calls = <<>>
    /\ outbox = <<>>
    /\ prompt_registry = <<>>

\* The service has been dropped: no request reaches it any more.
Dropped == sub_result.request = "drop"
SubResult(request, u, outcome) == [request |-> request, uri |-> u, outcome |-> outcome]

\* BasicService::subscribe panics before it touches the service: one of the
\* two expect() calls fails, or get_source reaches todo!().
SubscribePanics(u) ==
    /\ ~Dropped
    /\ \/ ~handler_set
       \/ ~state_set
       \/ get_source(u) = "panic"
    /\ sub_result' = SubResult("subscribe", u, "panic")
    /\ UNCHANGED <<subFrame, state_set, handler_set, template_resources,
                   resource_subscriptions, tasks, next_task, contents, set_pc, set_late,
                   last_notification, owed, waited>>

\* BasicService::subscribe, the Err arm: the 404 of get_source is returned.
SubscribeNotFound(u) ==
    /\ ~Dropped
    /\ handler_set /\ state_set
    /\ get_source(u) = "err404"
    /\ sub_result' = SubResult("subscribe", u, "err404")
    /\ UNCHANGED <<subFrame, state_set, handler_set, template_resources,
                   resource_subscriptions, tasks, next_task, contents, set_pc, set_late,
                   last_notification, owed, waited>>

\* BasicService::subscribe, the Ok arm: a watcher is spawned and its handle
\* inserted under the uri; the handle it replaces is dropped, not aborted.
SubscribeOk(u) ==
    /\ ~Dropped
    /\ handler_set /\ state_set
    /\ get_source(u) = "ok"
    /\ next_task <= MaxTasks
    /\ tasks' = [t \in TaskIds |->
                    IF t = next_task
                    THEN [uri |-> u, pc |-> "arming", late |-> FALSE, cause |-> 0]
                    ELSE IF tasks[t].uri = u THEN [tasks[t] EXCEPT !.late = FALSE]
                    ELSE tasks[t]]
    /\ next_task' = next_task + 1
    /\ resource_subscriptions' = MapInsert(resource_subscriptions, u, next_task)
    /\ set_late' = [set_late EXCEPT ![u] = FALSE]
    /\ sub_result' = SubResult("subscribe", u, "ok")
    /\ UNCHANGED <<subFrame, state_set, handler_set, template_resources, contents, set_pc,
                   last_notification, owed, waited>>

\* JoinHandle::abort: a parked or not yet polled task is dropped without
\* running again; a task whose poll is running finishes that poll first.
AbortOutcomes(task) ==
    CASE task.pc \in {"arming", "waiting"} -> {DeadTask}
      [] task.pc = "woken" -> {DeadTask, [task EXCEPT !.pc = "draining"]}
      [] OTHER -> {task}

\* BasicService::unsubscribe: the entry is removed and its task aborted; a uri
\* with no entry gives the same empty result.
Unsubscribe(u) ==
    /\ ~Dropped
    /\ IF Subscribed(u)
       THEN \E after \in AbortOutcomes(tasks[resource_subscriptions[u]]) :
                tasks' = [tasks EXCEPT ![resource_subscriptions[u]] = after]
       ELSE UNCHANGED tasks
    /\ resource_subscriptions' = MapRemove(resource_subscriptions, u)
    /\ owed' = IF u \in FixedUris THEN [owed EXCEPT ![u] = FALSE] ELSE owed
    /\ set_late' = IF u \in FixedUris /\ Subscribed(u)
                   THEN [set_late EXCEPT ![u] = FALSE]
                   ELSE set_late
    /\ sub_result' = SubResult("unsubscribe", u, "ok")
    /\ UNCHANGED <<subFrame, state_set, handler_set, template_resources, next_task,
                   contents, set_pc, last_notification, waited>>

\* BasicService::read_resource (basic_service.rs:222-228) and
\* ResourceRegistry::read_resource (resource.rs:66-84): state must be set, and
\* the source found by get_source is read.
read_resource(u) == IF ~state_set THEN "panic" ELSE get_source(u)

ReadResource(u) ==
    /\ ~Dropped
    /\ sub_result' = SubResult("readResource", u, read_resource(u))
    /\ UNCHANGED <<subFrame, state_set, handler_set, template_resources,
                   resource_subscriptions, tasks, next_task, contents, set_pc, set_late,
                   last_notification, owed, waited>>

\* The service is dropped. BasicService has no Drop of its own: its fields
\* are dropped, and dropping the map drops every JoinHandle in it, which
\* detaches the task. The tasks keep their clones of the source, the state
\* and the notification handler.
DropService ==
    /\ ~Dropped
    /\ resource_subscriptions' = <<>>
    /\ owed' = [u \in FixedUris |-> FALSE]
    /\ set_late' = [u \in FixedUris |-> FALSE]
    /\ sub_result' = SubResult("drop", "none", "ok")
    /\ UNCHANGED <<subFrame, state_set, handler_set, template_resources, tasks, next_task,
                   contents, set_pc, last_notification, waited>>

\* MemoryResource::set, line 31: the new contents are stored under the lock.
SetStore(u) ==
    /\ set_pc[u] = "idle"
    /\ contents[u] < MaxSets
    /\ contents' = [contents EXCEPT ![u] = @ + 1]
    /\ set_pc' = [set_pc EXCEPT ![u] = "notify"]
    /\ set_late' = [set_late EXCEPT ![u] = ~Subscribed(u) /\ ~Dropped]
    /\ owed' = [owed EXCEPT ![u] = @ \/ Subscribed(u)]
    /\ UNCHANGED <<subFrame, state_set, handler_set, template_resources, resource_subscriptions,
                   tasks, next_task, last_notification, sub_result, waited>>

\* MemoryResource::read (memory.rs:37-45): get() clones the contents under
\* the lock when read is called.
read(u) == contents[u]

\* A set() that wakes the waiters before it has stored its contents.
SetNotYetStored(u) == contents[u] + 1
\* The set() call that has reached line 32: its contents are the ones line
\* 31 has stored.
SetInProgress(u) == contents[u]

\* Notify::notify_waiters: every Notified future that exists is completed; no
\* permit is kept for a future created later. cause: the set() call that
\* woke the task.
notify_waiters(u) ==
    [t \in TaskIds |->
        IF tasks[t].uri = u /\ tasks[t].pc = "waiting"
        THEN [tasks[t] EXCEPT !.pc = "woken", !.late = set_late[u],
                              !.cause = SetInProgress(u)]
        ELSE tasks[t]]

\* MemoryResource::set, line 32. waited: a wait_for_change of the uri has
\* completed since the last resourceUpdated of the uri.
SetNotify(u) ==
    /\ set_pc[u] = "notify"
    /\ tasks' = notify_waiters(u)
    /\ waited' = [waited EXCEPT ![u] = @ \/ \E t \in TaskIds :
                                               tasks[t].uri = u /\ tasks[t].pc = "waiting"]
    /\ set_pc' = [set_pc EXCEPT ![u] = "idle"]
    /\ set_late' = [set_late EXCEPT ![u] = FALSE]
    /\ UNCHANGED <<subFrame, state_set, handler_set, template_resources, resource_subscriptions,
                   next_task, contents, last_notification, owed, sub_result>>

\* The watcher reaches wait_for_change (lines 247-249): MemoryResource creates
\* the Notified future and the task parks on it.
WatcherArm(t) ==
    /\ tasks[t].pc = "arming"
    /\ tasks' = [tasks EXCEPT ![t].pc = "waiting"]
    /\ UNCHANGED <<subFrame, state_set, handler_set, template_resources, resource_subscriptions,
                   next_task, contents, set_pc, set_late, last_notification, owed,
                   sub_result, waited>>

\* The watcher calls the notification handler with resourceUpdated{uri}
\* (lines 250-256) and loops; an aborted task is dropped instead of looping.
WatcherNotify(t) ==
    /\ tasks[t].pc \in {"woken", "draining"}
    /\ last_notification' =
          [uri |-> tasks[t].uri,
           late |-> tasks[t].late /\ ~Subscribed(tasks[t].uri),
           unwaited |-> ~waited[tasks[t].uri],
           dropped |-> Dropped]
    /\ tasks' = [tasks EXCEPT ![t] = IF tasks[t].pc = "woken"
                                     THEN [@ EXCEPT !.pc = "arming", !.late = FALSE,
                                                     !.cause = 0]
                                     ELSE DeadTask]
    /\ owed' = [owed EXCEPT ![tasks[t].uri] = FALSE]
    /\ waited' = [waited EXCEPT ![tasks[t].uri] = FALSE]
    /\ UNCHANGED <<subFrame, state_set, handler_set, template_resources, resource_subscriptions,
                   next_task, contents, set_pc, set_late, sub_result>>

\* The notification handler panics while the watcher calls it (line 250):
\* the panic unwinds the async block and tokio ends the task, keeping the
\* panic for whoever awaits the JoinHandle. Nobody does: the handle stays
\* in resource_subscriptions.
WatcherPanics(t) ==
    /\ tasks[t].pc = "woken"
    /\ last_notification' =
          [uri |-> tasks[t].uri,
           late |-> tasks[t].late /\ ~Subscribed(tasks[t].uri),
           unwaited |-> ~waited[tasks[t].uri],
           dropped |-> Dropped]
    /\ tasks' = [tasks EXCEPT ![t] = DeadTask]
    /\ owed' = [owed EXCEPT ![tasks[t].uri] = FALSE]
    /\ waited' = [waited EXCEPT ![tasks[t].uri] = FALSE]
    /\ UNCHANGED <<subFrame, state_set, handler_set, template_resources, resource_subscriptions,
                   next_task, contents, set_pc, set_late, sub_result>>

SubNext ==
    \/ \E u \in Uris : SubscribePanics(u)
    \/ \E u \in Uris : SubscribeNotFound(u)
    \/ \E u \in Uris : SubscribeOk(u)
    \/ \E u \in Uris : Unsubscribe(u)
    \/ \E u \in Uris : ReadResource(u)
    \/ DropService
    \/ \E u \in FixedUris : SetStore(u)
    \/ \E u \in FixedUris : SetNotify(u)
    \/ \E t \in TaskIds : WatcherArm(t)
    \/ \E t \in TaskIds : WatcherNotify(t)
    \/ \E t \in TaskIds : WatcherPanics(t)

(***************************************************************************)
(* McpImpl::message_handler (rpc.rs:424-516).                              *)
(*                                                                         *)
(* McpImpl holds the broadcast sender tx and the handlers map and nothing  *)
(* else (rpc.rs:138-141).  A request is in flight while its task is        *)
(* suspended at `handler(params).await` (line 493); no other await exists  *)
(* in the function.                                                        *)
(***************************************************************************)
RequestIds == {None, Some(1), Some(2)}
JsonRpcVersions == {"2.0", "1.0"}
Methods == {"initialize", "tools/list", "tools/call", "cancelled", "bogus"}
\* params: the requestId of a cancelled notification, Null otherwise.
Null == "null"
ParamsOf(method) == IF method = "cancelled" THEN {Some(1), Some(2)} ELSE {Null}
\* The methods message_handler answers itself (lines 432 and 449).
BuiltinMethods == {"initialize", "tools/list"}

MethodNotFound == -32601
\* What a registered handler may put in the response it builds.
HandlerCodes == {0, -32000}

\* The requests suspended at the handler's await.
InFlight == {i \in DOMAIN reqs : reqs[i].st = "awaiting"}
InFlightIds == {reqs[i].id : i \in InFlight}

\* The response message_handler builds without calling a handler:
\* lines 432-448 and 449-489 (a result), lines 495-504 (method not found).
\* request.jsonrpc is not read.
BuiltinResponse(request) ==
    IF request.method \in BuiltinMethods
    THEN [id |-> request.id, code |-> 0, by |-> "builtin"]
    ELSE [id |-> request.id, code |-> MethodNotFound, by |-> "none"]

\* Whether the request is passed to a registered handler (lines 490-493).
Routed(request) ==
    /\ request.method \notin BuiltinMethods
    /\ request.method \in handlers

\* Lines 509-515: the response is sent on tx and returned as the reply.
Emit(i, response) ==
    replies' = Append(replies, [req |-> i, id |-> response.id,
                                code |-> response.code, by |-> response.by])

\* message_handler up to its first suspension: a request for a registered
\* handler suspends at line 493, every other request is answered at once.
\* cancelled and dup record what the request met on arrival; the handler
\* reads neither.
Receive(id, jsonrpc, method, params) ==
    LET request == [id |-> id, jsonrpc |-> jsonrpc, method |-> method, params |-> params]
        i == Len(reqs) + 1
        dup == id # None /\ id \in InFlightIds
        marked == [k \in DOMAIN reqs |->
                      IF method = "cancelled" /\ k \in InFlight /\ reqs[k].id = params
                      THEN [reqs[k] EXCEPT !.cancelled = TRUE]
                      ELSE reqs[k]]
        entry(st) == [id |-> id, jsonrpc |-> jsonrpc, method |-> method,
                      params |-> params, st |-> st, cancelled |-> FALSE, dup |-> dup]
    IN  /\ Len(reqs) < MaxReqs
        /\ IF Routed(request)
           THEN /\ reqs' = Append(marked, entry("awaiting"))
                /\ UNCHANGED replies
           ELSE /\ reqs' = Append(marked, entry("done"))
                /\ Emit(i, BuiltinResponse(request))
        /\ UNCHANGED <<rpcFrame, handlers>>

\* The handler's future resolves (line 493): the JsonRpcResponse it built from
\* the params alone (HandlerFn, rpc.rs:115) is the response, as it is.
HandlerCompletes(i, hid, code) ==
    /\ i \in InFlight
    /\ reqs' = [reqs EXCEPT ![i].st = "done"]
    /\ Emit(i, [id |-> hid, code |-> code, by |-> "handler"])
    /\ UNCHANGED <<rpcFrame, handlers>>

RpcNext ==
    \/ \E id \in RequestIds, jsonrpc \in JsonRpcVersions, method \in Methods :
           \E params \in ParamsOf(method) : Receive(id, jsonrpc, method, params)
    \/ \E i \in 1..MaxReqs, hid \in RequestIds, code \in HandlerCodes :
           HandlerCompletes(i, hid, code)

(***************************************************************************)
(* McpServer::handle_message (server.rs:344-371) and the handlers it        *)
(* dispatches to (server.rs:387-456).                                       *)
(*                                                                         *)
(* The body of a POST to /api/message is deserialised into McpMessage       *)
(* (message.rs:41-98), an enum tagged by "method" with content "params":    *)
(* any other member of the JSON object, an "id" included, is dropped, and   *)
(* a method that names no variant becomes Unknown.  The reply is a          *)
(* serialised McpMessage: an object with the members "method" and           *)
(* "params" and no other.                                                   *)
(***************************************************************************)
\* ServerConfig::protocol_version, and a version the server does not support.
ProtocolVersion == "2024-11-05"
ProtocolVersions == {ProtocolVersion, "unsupported"}
ToolNames == {"echo", "nope"}
\* The "method" members a client may post; "bogus" names no variant.
SrvMethods == {"initialize", "initialized", "tools/call", "tools/list", "ping", "bogus"}
SrvParamsOf(method) ==
    IF method = "initialize" THEN ProtocolVersions
    ELSE IF method = "tools/call" THEN ToolNames
    ELSE {Null}

\* The variants handle_message has an arm for (lines 351-354).
SrvHandled == {"initialize", "tools/call", "tools/list", "ping"}
MethodNotSupported == -32601
ServerError == -32000

\* ErrorData serialised inside McpMessage::Error.
ErrorMessage(code) == [method |-> "error", params |-> [code |-> code]]

\* An initialize that accepts every protocol version.
handle_initialize_any(version) == [method |-> "initialized", params |-> Null]
\* handle_initialize (lines 387-403).
handle_initialize(version) ==
    IF version # ProtocolVersion THEN ErrorMessage(ServerError)
    ELSE [method |-> "initialized", params |-> Null]

\* handle_list_tools (lines 449-456), with the registry lock held.
handle_list_tools == [method |-> "tools/listResult", params |-> srv_tools]

\* Lines 366-370: the response is broadcast and returned as the reply.
SrvEmit(i, msg) ==
    srv_replies' = Append(srv_replies, [req |-> i, msg |-> msg])

\* What a task does once `state.registry.lock().await` has given it the
\* lock: handle_list_tools lists and lets go; handle_call_tool
\* (lines 419-435) fails at once on a name the registry does not hold
\* (tool.rs:148-150) and otherwise awaits the tool with the lock held.
WithLock(i, m, msgs) ==
    IF m.method = "tools/list"
    THEN /\ srv_msgs' = [msgs EXCEPT ![i].st = "done"]
         /\ SrvEmit(i, handle_list_tools)
         /\ srv_lock' = 0
    ELSE IF m.params \notin srv_tools
    THEN /\ srv_msgs' = [msgs EXCEPT ![i].st = "done"]
         /\ SrvEmit(i, ErrorMessage(ServerError))
         /\ srv_lock' = 0
    ELSE /\ srv_msgs' = [msgs EXCEPT ![i].st = "calling"]
         /\ srv_lock' = i
         /\ UNCHANGED srv_replies

\* handle_message up to its first suspension.
SrvReceive(id, method, params) ==
    LET i == Len(srv_msgs) + 1
        m == [id |-> id, method |-> method, params |-> params, st |-> "done"]
        msgs == Append(srv_msgs, m)
    IN  /\ Len(srv_msgs) < MaxMsgs
        /\ IF method = "initialize"
           THEN /\ srv_msgs' = msgs
                /\ SrvEmit(i, handle_initialize(params))
                /\ UNCHANGED srv_lock
           ELSE IF method = "ping"
           THEN /\ srv_msgs' = msgs
                /\ SrvEmit(i, [method |-> "pingResponse", params |-> Null])
                /\ UNCHANGED srv_lock
           ELSE IF method \notin SrvHandled
           THEN /\ srv_msgs' = msgs
                /\ SrvEmit(i, ErrorMessage(MethodNotSupported))
                /\ UNCHANGED srv_lock
           ELSE IF srv_lock = 0
           THEN WithLock(i, m, msgs)
           ELSE /\ srv_msgs' = [msgs EXCEPT ![i].st = "locking"]
                /\ UNCHANGED <<srv_lock, srv_replies>>
        /\ UNCHANGED <<srvFrame, srv_tools>>

\* The tasks queued on the registry Mutex; tokio's Mutex serves them in the
\* order they arrived.
SrvLocking == {i \in DOMAIN srv_msgs : srv_msgs[i].st = "locking"}

SrvAcquire(i) ==
    /\ i \in SrvLocking
    /\ \A j \in SrvLocking : i <= j
    /\ srv_lock = 0
    /\ WithLock(i, srv_msgs[i], srv_msgs)
    /\ UNCHANGED <<srvFrame, srv_tools>>

\* The tool's future resolves (tool.rs:153): Ok gives CallToolResponse, Err
\* gives Error with code -32000 (server.rs:425-434); the lock guard is
\* dropped on return.
SrvToolCompletes(i, ok) ==
    /\ i \in DOMAIN srv_msgs
    /\ srv_msgs[i].st = "calling"
    /\ srv_msgs' = [srv_msgs EXCEPT ![i].st = "done"]
    /\ SrvEmit(i, IF ok THEN [method |-> "tools/callResult", params |-> srv_msgs[i].params]
                  ELSE ErrorMessage(ServerError))
    /\ srv_lock' = 0
    /\ UNCHANGED <<srvFrame, srv_tools>>

SrvNext ==
    \/ \E id \in RequestIds, method \in SrvMethods :
           \E params \in SrvParamsOf(method) : SrvReceive(id, method, params)
    \/ \E i \in 1..MaxMsgs : SrvAcquire(i)
    \/ \E i \in 1..MaxMsgs, ok \in BOOLEAN : SrvToolCompletes(i, ok)

(***************************************************************************)
(* The tool registries.                                                    *)
(*                                                                         *)
(* ToolRegistry of tool.rs is the registry McpServer serves; ToolRegistry  *)
(* of registry/tool.rs, a HandlerRegistry (registry/mod.rs), is the one    *)
(* BasicService serves through handle_request (lib.rs:82-142).  Both keep  *)
(* a HashMap from the tool's name to the tool.                             *)
(***************************************************************************)
\* The names tools are registered under, and a name nothing is registered under.
RegNames == {"echo", "add"}
CallNames == RegNames \cup {"nope"}
\* The handlers a tool may be built with.
HandlerIds == {1, 2}
\* CallToolParams::arguments: None, or Some value: the empty object, or an
\* object that holds every field of the handler's input type.
NoArgs == "none"
ArgValues == {NoArgs, "{}", "x"}
\* The requests of handle_request that reach the tool registry, and three
\* that do not.
SvcRequests == {"ping", "complete", "setLevel", "listTools", "callTool"}

NotFound == 404
BadArguments == 400
\* ErrorData::code of every tool call that failed in McpServer.
ToolCallError == -32000
\* The Error{code, message} a user handler may return (lib.rs:8-12).
HandlerError == [code |-> 42, message |-> "boom"]
\* What serde_json says of an object that lacks a field of the input type.
SerdeError == "missing field"

\* The input type of handler 1 has a required field, as EchoInput
\* (tool.rs:351-354); every field of the input type of handler 2 has a default.
AcceptsEmpty(h) == h = 2
\* serde_json::from_value(value) into the input type of handler h: an object
\* needs every required field, and Null is no object.
from_value(h, value) == value = "x" \/ (value = "{}" /\ AcceptsEmpty(h))

\* The orders in which a HashMap holding the keys S may iterate: the order
\* of std's HashMap is unspecified and differs from one map to the next.
Orders(S) == {o \in [1..Cardinality(S) -> S] : \A i, j \in DOMAIN o : o[i] = o[j] => i = j}

Result(on, request, name, outcome, code, by, given, args, list) ==
    [on |-> on, request |-> request, name |-> name, outcome |-> outcome,
     code |-> code, by |-> by, given |-> given, args |-> args, list |-> list,
     at |-> Len(reg_log), message |-> "", returned |-> "none"]
\* An error result with its message; a result of a call whose handler ran,
\* with what the handler returned.
WithMessage(result, message) == [result EXCEPT !.message = message]
Returned(result, ok) == [result EXCEPT !.returned = IF ok THEN "ok" ELSE "err"]

\* The registries belong to different servers: a run registers its tools
\* with one of them.
OnlyOn(on) == \A i \in DOMAIN reg_log : reg_log[i].on = on

\* ToolRegistry::register (tool.rs:129-132): HashMap::insert under tool.name().
Register(name, h) ==
    /\ Len(reg_log) < MaxRegs
    /\ OnlyOn("tools")
    /\ tools' = MapInsert(tools, name, h)
    /\ reg_log' = Append(reg_log, [on |-> "tools", name |-> name, handler |-> h])
    /\ UNCHANGED <<svcFrame, state_set, tool_registry, builder_tools, svc_result>>

\* ToolRegistry::register (registry/tool.rs:22-44), which ends in
\* HandlerRegistry::register (registry/mod.rs:91-93): HashMap::insert.
SvcRegister(name, h) ==
    /\ Len(reg_log) < MaxRegs
    /\ OnlyOn("tool_registry")
    /\ tool_registry' = MapInsert(tool_registry, name, h)
    /\ reg_log' = Append(reg_log, [on |-> "tool_registry", name |-> name, handler |-> h])
    /\ UNCHANGED <<svcFrame, state_set, tools, builder_tools, svc_result>>

\* ToolRegistry::register (builder/registry.rs:75-112): HashMap::insert.
BuilderRegister(name, h) ==
    /\ Len(reg_log) < MaxRegs
    /\ OnlyOn("builder")
    /\ builder_tools' = MapInsert(builder_tools, name, h)
    /\ reg_log' = Append(reg_log, [on |-> "builder", name |-> name, handler |-> h])
    /\ UNCHANGED <<svcFrame, state_set, tools, tool_registry, svc_result>>

\* ToolRegistry::list_tools (tool.rs:157-166): one ToolDefinition per value
\* of the map, in the map's iteration order.
ListTools(order) ==
    /\ order \in Orders(DOMAIN tools)
    /\ svc_result' = Result("tools", "listTools", "none", "ok", 0, 0, "none", "none", order)
    /\ UNCHANGED <<svcFrame, state_set, tools, tool_registry, builder_tools, reg_log>>

\* ToolRegistry::call_tool (tool.rs:147-154) and TypedTool::call
\* (tool.rs:273-285): the tool found under the name is called with the
\* arguments, Null standing for None; it parses them into its input type and
\* runs its handler on the input. The errors are eyre reports: a message and
\* no code.
tools_call_tool(name, args, ok) ==
    LET input == IF args = NoArgs THEN Null ELSE args
    IN  IF name \notin DOMAIN tools
        THEN WithMessage(Result("tools", "callTool", name, "err", 0, 0, args, "none", <<>>),
                         "Tool not found: " \o name)
        ELSE IF ~from_value(tools[name], input)
        THEN WithMessage(Result("tools", "callTool", name, "err", 0, 0, args, "none", <<>>),
                         "Failed to parse arguments for tool '" \o name \o "'")
        ELSE IF ~ok
        THEN Returned(WithMessage(Result("tools", "callTool", name, "err", 0, tools[name],
                                         args, input, <<>>),
                                  HandlerError.message), ok)
        ELSE Returned(Result("tools", "callTool", name, "ok", 0, tools[name], args, input, <<>>),
                      ok)

CallTool(name, args, ok) ==
    /\ svc_result' = tools_call_tool(name, args, ok)
    /\ UNCHANGED <<svcFrame, state_set, tools, tool_registry, builder_tools, reg_log>>

\* McpServer::handle_call_tool (server.rs:419-435), the registry lock apart:
\* Ok becomes CallToolResponse, Err becomes Error with code -32000 and the
\* message "Tool call error: {e}".
handle_call_tool(result) ==
    IF result.outcome = "ok" THEN [result EXCEPT !.request = "tools/call"]
    ELSE [result EXCEPT !.request = "tools/call", !.code = ToolCallError,
                        !.message = "Tool call error: " \o result.message]

HandleCallTool(name, args, ok) ==
    /\ svc_result' = handle_call_tool(tools_call_tool(name, args, ok))
    /\ UNCHANGED <<svcFrame, state_set, tools, tool_registry, builder_tools, reg_log>>

\* BasicService::list_tools (basic_service.rs:334-352): every tool of the
\* registry goes through mcp_schema::Tool::try_from (registry/tool.rs:133-144),
\* whose first member is `description: todo!()`.
list_tools ==
    IF DOMAIN tool_registry = {}
    THEN Result("tool_registry", "listTools", "none", "ok", 0, 0, "none", "none", <<>>)
    ELSE Result("tool_registry", "listTools", "none", "panic", 0, 0, "none", "none", <<>>)

\* BasicService::call_tool (basic_service.rs:354-360), ToolRegistry::call_tool
\* (registry/tool.rs:47-59) and HandlerRegistry::call (registry/mod.rs:96-116):
\* state must be set; a name the map does not hold gives 404; the handler
\* found is run with the arguments, the empty map standing for None;
\* WrappedAsyncFn::run (registry/mod.rs:67-81) fails with 400 when they do not
\* deserialise into the handler's input and calls the handler otherwise; the
\* handler's Err is the result as it is.
call_tool(name, args, ok) ==
    LET input == IF args = NoArgs THEN "{}" ELSE args
    IN  IF ~state_set
        THEN Result("tool_registry", "callTool", name, "panic", 0, 0, args, "none", <<>>)
        ELSE IF name \notin DOMAIN tool_registry
        THEN WithMessage(Result("tool_registry", "callTool", name, "err", NotFound, 0, args,
                                "none", <<>>),
                         "Handler '" \o name \o "' not found")
        ELSE IF ~from_value(tool_registry[name], input)
        THEN WithMessage(Result("tool_registry", "callTool", name, "err", BadArguments, 0,
                                args, "none", <<>>),
                         "Failed to deserialize arguments: " \o SerdeError)
        ELSE IF ~ok
        THEN Returned(WithMessage(Result("tool_registry", "callTool", name, "err",
                                         HandlerError.code, tool_registry[name], args, input,
                                         <<>>),
                                  HandlerError.message), ok)
        ELSE Returned(Result("tool_registry", "callTool", name, "ok", 0, tool_registry[name],
                             args, input, <<>>), ok)

\* ToolRegistry::call_tool (builder/registry.rs:115-126) and HandlerFn::run
\* (builder/registry.rs:33-57): a name the map does not hold gives 404; the
\* request carries a map, empty when it names no argument; run unwraps the
\* deserialised input, and whatever the handler returns is serialised into
\* the content of an Ok result.
builder_call_tool(name, args, ok) ==
    LET input == IF args = NoArgs THEN "{}" ELSE args
    IN  IF name \notin DOMAIN builder_tools
        THEN WithMessage(Result("builder", "callTool", name, "err", NotFound, 0, args,
                                "none", <<>>),
                         "Tool '" \o name \o "' not found")
        ELSE IF ~from_value(builder_tools[name], input)
        THEN Result("builder", "callTool", name, "panic", 0, 0, args, "none", <<>>)
        ELSE Returned(Result("builder", "callTool", name, "ok", 0, builder_tools[name], args,
                             input, <<>>), ok)

BuilderCallTool(name, args, ok) ==
    /\ svc_result' = builder_call_tool(name, args, ok)
    /\ UNCHANGED <<svcFrame, state_set, tools, tool_registry, builder_tools, reg_log>>

\* BasicService::set_level (basic_service.rs:362-367): the future is
\* `async move { todo!() }`.
set_level == Result("tool_registry", "setLevel", "none", "panic", 0, 0, "none", "none", <<>>)

\* handle_request (lib.rs:82-142) on a BasicService.
handle_request(request, name, args, ok) ==
    IF request = "listTools" THEN list_tools
    ELSE IF request = "callTool" THEN call_tool(name, args, ok)
    ELSE IF request = "setLevel" THEN set_level
    ELSE Result("tool_registry", request, "none", "ok", 0, 0, "none", "none", <<>>)

HandleRequest(request, name, args, ok) ==
    /\ svc_result' = handle_request(request, name, args, ok)
    /\ UNCHANGED <<svcFrame, state_set, tools, tool_registry, builder_tools, reg_log>>

SvcNext ==
    \/ \E name \in RegNames, h \in HandlerIds : Register(name, h)
    \/ \E name \in RegNames, h \in HandlerIds : SvcRegister(name, h)
    \/ \E name \in RegNames, h \in HandlerIds : BuilderRegister(name, h)
    \/ \E order \in Orders(DOMAIN tools) : ListTools(order)
    \/ \E name \in CallNames, args \in ArgValues, ok \in BOOLEAN : CallTool(name, args, ok)
    \/ \E name \in CallNames, args \in ArgValues, ok \in BOOLEAN : HandleCallTool(name, args, ok)
    \/ \E name \in CallNames, args \in ArgValues, ok \in BOOLEAN : BuilderCallTool(name, args, ok)
    \/ \E request \in SvcRequests \ {"callTool"} : HandleRequest(request, "none", NoArgs, TRUE)
    \/ \E name \in CallNames, args \in ArgValues, ok \in BOOLEAN :
           HandleRequest("callTool", name, args, ok)

(***************************************************************************)
(* The broadcast channel and the SSE connections: McpImpl::sse_handler     *)
(* (rpc.rs:373-401) with the send of message_handler (rpc.rs:509-515), and *)
(* SseTransport::sse_handler (transport.rs:169-192) with the send of       *)
(* McpServer::handle_message (server.rs:365-370).                          *)
(*                                                                         *)
(* tokio's broadcast channel: send stores the value for every receiver     *)
(* alive at that moment and returns at once, with Err when there is none;  *)
(* a receiver created by subscribe starts at the channel's tail; recv      *)
(* gives the receiver's next value, waits when it has read them all, and   *)
(* gives Err(Lagged) when the values it has not read outnumber the         *)
(* capacity.                                                               *)
(***************************************************************************)
SseKinds == {"McpImpl", "McpServer"}

\* The connections whose receiver is alive.
Connected == {l \in SseListeners : listeners[l].pc \in {"initial", "stream"}}

\* The receivers subscribed to the channel: one per connection, and the
\* receiver SseTransport::new keeps in McpServer::transport for the life
\* of the server (transport.rs:133-136, server.rs:247-253); McpImpl::new
\* drops the receiver the channel is created with (rpc.rs:352).
ReceiverCount == Cardinality(Connected) + (IF sse_kind = "McpServer" THEN 1 ELSE 0)

\* The send of a bounded queue, which waits while a receiver's backlog fills
\* the capacity.
SendReadyWhenRoom ==
    \A l \in Connected : Len(chan) - listeners[l].next < ChannelCapacity

\* broadcast::Sender::send is not async: it never waits for a receiver.
SendReady == TRUE

\* A send that keeps the values not yet read and drops the new one instead
\* when a receiver's backlog has reached the capacity.
send_drop_newest(n) ==
    IF ReceiverCount = 0 \/ \E l \in Connected : Len(chan) - listeners[l].next >= ChannelCapacity
    THEN chan ELSE Append(chan, n)

\* Sender::send(message): Err, and nothing stored, when no receiver is alive.
send(n) == IF ReceiverCount = 0 THEN chan ELSE Append(chan, n)

\* The first event of a connection: rpc.rs:384-385 and transport.rs:170.
InitialEvent ==
    IF sse_kind = "McpImpl" THEN [event |-> "endpoint", data |-> "/api/message"]
    ELSE [event |-> "", data |-> "connected"]

\* A channel that closes for everyone once one of its receivers is dropped.
recv_closed_by_others(l) ==
    IF \E k \in SseListeners \ {l} : listeners[k].pc \in {"gone", "ended"} THEN "closed"
    ELSE IF Len(chan) - listeners[l].next > ChannelCapacity THEN "lagged"
    ELSE IF listeners[l].next < Len(chan) THEN "ok"
    ELSE "pending"

\* Receiver::recv for the connection l.
recv(l) ==
    IF Len(chan) - listeners[l].next > ChannelCapacity THEN "lagged"
    ELSE IF listeners[l].next < Len(chan) THEN "ok"
    ELSE "pending"

\* The message handler has built a response and reaches tx.send.
BeginPost ==
    /\ post_pc = "idle"
    /\ posts < MaxPosts
    /\ posts' = posts + 1
    /\ post_pc' = "sending"
    /\ UNCHANGED <<sseFrame, sse_kind, chan, post_log, listeners>>

\* rpc.rs:509-515, server.rs:365-370: the response is sent on the channel,
\* a failed send is logged, and the response is returned as the reply.
Send ==
    /\ post_pc = "sending"
    /\ SendReady
    /\ chan' = send(posts)
    /\ post_log' = Append(post_log, Connected)
    /\ post_pc' = "idle"
    /\ UNCHANGED <<sseFrame, sse_kind, posts, listeners>>

\* GET /api/events: the handler subscribes a receiver and returns the stream
\* initial.chain(stream); nothing is delivered before the stream is polled.
Connect(l) ==
    /\ listeners[l].pc = "off"
    /\ listeners' = [listeners EXCEPT ![l] =
           [pc |-> "initial", start |-> Len(chan), next |-> Len(chan),
            events |-> <<>>, lagged |-> FALSE]]
    /\ UNCHANGED <<sseFrame, sse_kind, chan, posts, post_pc, post_log>>

\* The first poll of the stream delivers the initial event.
DeliverInitial(l) ==
    /\ listeners[l].pc = "initial"
    /\ listeners' = [listeners EXCEPT ![l].pc = "stream",
                                      ![l].events = <<InitialEvent>>]
    /\ UNCHANGED <<sseFrame, sse_kind, chan, posts, post_pc, post_log>>

\* A later poll: the closure of stream::unfold (rpc.rs:386-398,
\* transport.rs:173-184). Ok(msg) becomes a message event; any Err ends the
\* stream, and the receiver is dropped with it.
Recv(l) ==
    /\ listeners[l].pc = "stream"
    /\ recv(l) # "pending"
    /\ listeners' = [listeners EXCEPT ![l] =
           IF recv(l) = "ok"
           THEN [@ EXCEPT !.next = @ + 1,
                          !.events = Append(@, [event |-> "message", data |-> chan[listeners[l].next + 1]])]
           ELSE [@ EXCEPT !.pc = "ended", !.lagged = (recv(l) = "lagged")]]
    /\ UNCHANGED <<sseFrame, sse_kind, chan, posts, post_pc, post_log>>

\* The client closes the connection: axum drops the stream and its receiver.
Disconnect(l) ==
    /\ l \in Connected
    /\ listeners' = [listeners EXCEPT ![l].pc = "gone"]
    /\ UNCHANGED <<sseFrame, sse_kind, chan, posts, post_pc, post_log>>

SseNext ==
    \/ BeginPost
    \/ Send
    \/ \E l \in SseListeners : Connect(l)
    \/ \E l \in SseListeners : DeliverInitial(l)
    \/ \E l \in SseListeners : Recv(l)
    \/ \E l \in SseListeners : Disconnect(l)

(***************************************************************************)
(* ResourceBuilder (registry/resource.rs:222-300).                         *)
(*                                                                         *)
(* Every setter takes the builder by value and returns it with one Option  *)
(* set to Some; build takes it by value as well, so a builder that has     *)
(* been built is not used again. The annotations, which build copies as    *)
(* it copies description and mime_type, are left out.                      *)
(***************************************************************************)
ResourceNames == {"n", "m"}
Descriptions == {"d"}
MimeTypes == {"text/plain"}
Sources == {"memory"}

BuildError == 500

\* ResourceBuilder::build (lines 271-286): the fields of Resource are
\* evaluated in the order written, uri first and source last; name falls
\* back on "unnamed resource".
build(b) ==
    IF b.uri = None
    THEN [outcome |-> "err", code |-> BuildError, message |-> "missing uri", resource |-> None]
    ELSE IF b.source = None
    THEN [outcome |-> "err", code |-> BuildError, message |-> "missing source",
          resource |-> None]
    ELSE [outcome |-> "ok", code |-> 0, message |-> "",
          resource |-> Some([uri |-> Unwrap(b.uri),
                             name |-> IF b.name = None THEN "unnamed resource"
                                      ELSE Unwrap(b.name),
                             description |-> b.description,
                             mime_type |-> b.mime_type,
                             source |-> Unwrap(b.source)])]

Unbuilt == built = NoBuilt

\* name (lines 237-240).
BuilderName(n) ==
    /\ Unbuilt
    /\ builder' = [builder EXCEPT !.name = Some(n)]
    /\ UNCHANGED <<bldFrame, built>>

\* description (lines 243-246).
BuilderDescription(d) ==
    /\ Unbuilt
    /\ builder' = [builder EXCEPT !.description = Some(d)]
    /\ UNCHANGED <<bldFrame, built>>

\* mime_type (lines 249-252).
BuilderMimeType(t) ==
    /\ Unbuilt
    /\ builder' = [builder EXCEPT !.mime_type = Some(t)]
    /\ UNCHANGED <<bldFrame, built>>

\* source (lines 261-264).
BuilderSource(src) ==
    /\ Unbuilt
    /\ builder' = [builder EXCEPT !.source = Some(src)]
    /\ UNCHANGED <<bldFrame, built>>

\* fixed_uri (lines 290-294).
BuilderFixedUri(u) ==
    /\ Unbuilt
    /\ builder' = [builder EXCEPT !.uri = Some(u)]
    /\ UNCHANGED <<bldFrame, built>>

Build ==
    /\ Unbuilt
    /\ built' = build(builder)
    /\ UNCHANGED <<bldFrame, builder>>

\* Resource::builder() (lines 187-190) starts the next builder.
NewBuilder ==
    /\ ~Unbuilt
    /\ builder' = ResourceBuilder_new
    /\ built' = NoBuilt
    /\ UNCHANGED bldFrame

BldNext ==
    \/ \E n \in ResourceNames : BuilderName(n)
    \/ \E d \in Descriptions : BuilderDescription(d)
    \/ \E t \in MimeTypes : BuilderMimeType(t)
    \/ \E src \in Sources : BuilderSource(src)
    \/ \E u \in FixedUris : BuilderFixedUri(u)
    \/ Build
    \/ NewBuilder

(***************************************************************************)
(* The wire codec: serde_json::to_string and from_str on JsonRpcMessage    *)
(* (rpc.rs:165-323) and on McpMessage (message.rs:41-217).                 *)
(*                                                                         *)
(* A JSON value is a record tagged by its type, with its number n, its     *)
(* string s or its object o; a JSON object is a function from its member   *)
(* names to values.                                                        *)
(***************************************************************************)
JNull == [t |-> "null"]
JNumber(n) == [t |-> "number", n |-> n]
JString(s) == [t |-> "string", s |-> s]
JObject(o) == [t |-> "object", o |-> o]

\* serde_json::Value, as params, result, data and arguments carry it.
Values == {JNull, JString("v"), JObject(<<>>)}
Option(S) == {None} \cup {Some(v) : v \in S}

\* JsonRpcError (rpc.rs:263-276).
JsonRpcErrors == [code : {-32601}, message : {"Method not found"}, data : Option(Values)]

\* JsonRpcMessage (rpc.rs:312-323) with JsonRpcRequest (165-178),
\* JsonRpcResponse (217-231) and JsonRpcNotification (293-305).
JsonRpcMessages ==
    [type : {"JsonRpcMessage"}, variant : {"Request"}, jsonrpc : {"2.0"},
     id : {None, Some(1)}, method : {"tools/list", "tools/call"}, params : Option(Values)]
    \cup [type : {"JsonRpcMessage"}, variant : {"Response"}, jsonrpc : {"2.0"},
          id : {None, Some(1)}, result : Option(Values), error : Option(JsonRpcErrors)]
    \cup [type : {"JsonRpcMessage"}, variant : {"Notification"}, jsonrpc : {"2.0"},
          method : {"cancelled", "initialized"}, params : Option(Values)]

\* McpMessage (message.rs:41-98): the requests of a client and the answers
\* without a list in them.
McpMessages ==
    [type : {"McpMessage"}, variant : {"Initialize"}, protocol_version : ProtocolVersions]
    \cup [type : {"McpMessage"}, variant : {"CallTool"}, name : ToolNames,
          arguments : Option(Values)]
    \cup [type : {"McpMessage"}, variant : {"Error"}, code : {-32000},
          message : {"Tool call error"}, data : Option(Values)]
    \cup [type : {"McpMessage"},
          variant : {"Initialized", "ListTools", "Ping", "PingResponse", "Unknown"}]

\* An Option field without skip_serializing_if: None is written as null.
OrNull(option) == IF option = None THEN JNull ELSE Unwrap(option)
\* A field with skip_serializing_if = "Option::is_none": None writes no member.
Skipped(member, option) == IF option = None THEN <<>> ELSE member :> Unwrap(option)

\* Serialize of JsonRpcError.
encode_error(e) ==
    JObject([code |-> JNumber(e.code), message |-> JString(e.message)]
            @@ Skipped("data", e.data))

\* Serialize of JsonRpcMessage: untagged, the members of the variant's struct.
encode_jsonrpc(m) ==
    CASE m.variant = "Request" ->
             [jsonrpc |-> JString(m.jsonrpc),
              id |-> IF m.id = None THEN JNull ELSE JNumber(Unwrap(m.id)),
              method |-> JString(m.method),
              params |-> OrNull(m.params)]
      [] m.variant = "Response" ->
             [jsonrpc |-> JString(m.jsonrpc),
              id |-> IF m.id = None THEN JNull ELSE JNumber(Unwrap(m.id))]
             @@ Skipped("result", m.result)
             @@ Skipped("error", IF m.error = None THEN None
                                 ELSE Some(encode_error(Unwrap(m.error))))
      [] m.variant = "Notification" ->
             [jsonrpc |-> JString(m.jsonrpc),
              method |-> JString(m.method),
              params |-> OrNull(m.params)]

\* The "method" member of each variant of McpMessage: rename_all = "camelCase"
\* and the renames of lines 57-79.
MethodOf(variant) ==
    CASE variant = "Initialize" -> "initialize"
      [] variant = "Initialized" -> "initialized"
      [] variant = "CallTool" -> "tools/call"
      [] variant = "Error" -> "error"
      [] variant = "ListTools" -> "tools/list"
      [] variant = "Ping" -> "ping"
      [] variant = "PingResponse" -> "pingResponse"
      [] variant = "Unknown" -> "unknown"

\* Serialize of McpMessage: tag = "method", content = "params"; a unit
\* variant writes the tag alone.
encode_mcp(m) ==
    CASE m.variant = "Initialize" ->
             [method |-> JString(MethodOf(m.variant)),
              params |-> JObject([protocolVersion |-> JString(m.protocol_version)])]
      [] m.variant = "CallTool" ->
             [method |-> JString(MethodOf(m.variant)),
              params |-> JObject([name |-> JString(m.name),
                                  arguments |-> OrNull(m.arguments)])]
      [] m.variant = "Error" ->
             [method |-> JString(MethodOf(m.variant)),
              params |-> JObject([code |-> JNumber(m.code), message |-> JString(m.message),
                                  data |-> OrNull(m.data)])]
      [] OTHER -> [method |-> JString(MethodOf(m.variant))]

encode(m) == IF m.type = "JsonRpcMessage" THEN encode_jsonrpc(m) ELSE encode_mcp(m)

\* Deserialize of an Option field: a member that is absent or null is None.
Member(object, member) == IF member \in DOMAIN object THEN object[member] ELSE JNull
OptionOf(object, member) ==
    IF Member(object, member).t = "null" THEN None ELSE Some(Member(object, member))
Has(object, member, type) == member \in DOMAIN object /\ object[member].t = type
MayHave(object, member, type) == Member(object, member).t \in {"null", type}

DecodeError == [type |-> "error"]

\* Deserialize of the three structs: the members that are no Option must be
\* there with their type; members the struct does not know are ignored.
IsRequest(json) ==
    /\ Has(json, "jsonrpc", "string")
    /\ MayHave(json, "id", "number")
    /\ Has(json, "method", "string")
IsError(value) ==
    /\ value.t = "object"
    /\ Has(value.o, "code", "number")
    /\ Has(value.o, "message", "string")
IsResponse(json) ==
    /\ Has(json, "jsonrpc", "string")
    /\ MayHave(json, "id", "number")
    /\ Member(json, "error").t = "null" \/ IsError(json["error"])
IsNotification(json) ==
    /\ Has(json, "jsonrpc", "string")
    /\ Has(json, "method", "string")

IdOf(json) == IF Member(json, "id").t = "null" THEN None ELSE Some(json["id"].n)

decode_error(value) ==
    [code |-> value.o["code"].n, message |-> value.o["message"].s,
     data |-> OptionOf(value.o, "data")]

\* Deserialize of JsonRpcMessage: #[serde(untagged)] tries the variants in
\* the order they are declared and takes the first that deserialises.
decode_jsonrpc(json) ==
    IF IsRequest(json)
    THEN [type |-> "JsonRpcMessage", variant |-> "Request", jsonrpc |-> json["jsonrpc"].s,
          id |-> IdOf(json), method |-> json["method"].s,
          params |-> OptionOf(json, "params")]
    ELSE IF IsResponse(json)
    THEN [type |-> "JsonRpcMessage", variant |-> "Response", jsonrpc |-> json["jsonrpc"].s,
          id |-> IdOf(json), result |-> OptionOf(json, "result"),
          error |-> IF Member(json, "error").t = "null" THEN None
                    ELSE Some(decode_error(json["error"]))]
    ELSE IF IsNotification(json)
    THEN [type |-> "JsonRpcMessage", variant |-> "Notification",
          jsonrpc |-> json["jsonrpc"].s, method |-> json["method"].s,
          params |-> OptionOf(json, "params")]
    ELSE DecodeError

McpVariants ==
    {"Initialize", "Initialized", "CallTool", "Error", "ListTools", "Ping", "PingResponse"}

\* Deserialize of McpMessage: the variant whose name is the "method" member,
\* Unknown (#[serde(other)]) when there is none, with the "params" member
\* as its content.
decode_mcp(json) ==
    IF ~Has(json, "method", "string") THEN DecodeError
    ELSE LET named == {variant \in McpVariants : MethodOf(variant) = json["method"].s}
             params == Member(json, "params")
         IN  IF named = {} THEN [type |-> "McpMessage", variant |-> "Unknown"]
             ELSE IF named = {"Initialize"}
             THEN IF params.t = "object" /\ Has(params.o, "protocolVersion", "string")
                  THEN [type |-> "McpMessage", variant |-> "Initialize",
                        protocol_version |-> params.o["protocolVersion"].s]
                  ELSE DecodeError
             ELSE IF named = {"CallTool"}
             THEN IF params.t = "object" /\ Has(params.o, "name", "string")
                  THEN [type |-> "McpMessage", variant |-> "CallTool",
                        name |-> params.o["name"].s,
                        arguments |-> OptionOf(params.o, "arguments")]
                  ELSE DecodeError
             ELSE IF named = {"Error"}
             THEN IF IsError(params)
                  THEN [type |-> "McpMessage", variant |-> "Error",
                        code |-> params.o["code"].n, message |-> params.o["message"].s,
                        data |-> OptionOf(params.o, "data")]
                  ELSE DecodeError
             ELSE [type |-> "McpMessage", variant |-> Unwrap(named)]

decode(type, json) == IF type = "JsonRpcMessage" THEN decode_jsonrpc(json) ELSE decode_mcp(json)

\* serde_json::to_string(&message), as json_data does for an SSE event (rpc.rs:390).
Encode ==
    /\ wire = None
    /\ wire' = Some(encode(original))
    /\ UNCHANGED <<codecFrame, original, decoded>>

\* serde_json::from_str of the text, into the type of the message sent.
Decode ==
    /\ wire # None
    /\ decoded = None
    /\ decoded' = Some(decode(original.type, Unwrap(wire)))
    /\ UNCHANGED <<codecFrame, original, wire>>

CodecNext == Encode \/ Decode

(***************************************************************************)
(* handle_request (lib.rs:82-142).                                         *)
(*                                                                         *)
(* The function is generic in the service: it knows the trait Service      *)
(* (lib.rs:22-80) and nothing of the implementation. A method of the       *)
(* service returns Ok, returns Err or panics.                              *)
(***************************************************************************)
\* The variants of mcp_schema::ClientRequest, one match arm each.
ClientRequests ==
    {"Initialize", "Ping", "ListResources", "ListResourceTemplates", "ReadResource",
     "Subscribe", "Unsubscribe", "ListPrompts", "GetPrompt", "ListTools", "CallTool",
     "SetLevel", "Complete"}

MethodOutcomes == {"ok", "err", "panic"}

\* The method of Service each arm calls; the Complete arm calls none.
ServiceMethod(request) ==
    CASE request = "Initialize" -> Some("init")
      [] request = "Ping" -> Some("ping")
      [] request = "ListResources" -> Some("list_resources")
      [] request = "ListResourceTemplates" -> Some("list_resource_templates")
      [] request = "ReadResource" -> Some("read_resource")
      [] request = "Subscribe" -> Some("subscribe")
      [] request = "Unsubscribe" -> Some("unsubscribe")
      [] request = "ListPrompts" -> Some("list_prompts")
      [] request = "GetPrompt" -> Some("get_prompt")
      [] request = "ListTools" -> Some("list_tools")
      [] request = "CallTool" -> Some("call_tool")
      [] request = "SetLevel" -> Some("set_level")
      [] request = "Complete" -> None

\* A wrapping of every Ok value in the variant named after its request.
VariantNamedAfter(request) == request
\* The variant of mcp_schema::ServerResult each arm maps an Ok value into.
ResultVariant(request) ==
    CASE request = "Initialize" -> "Initialize"
      [] request = "Ping" -> "Empty"
      [] request = "ListResources" -> "ListResources"
      [] request = "ListResourceTemplates" -> "ListResourceTemplates"
      [] request = "ReadResource" -> "ReadResource"
      [] request = "Subscribe" -> "Empty"
      [] request = "Unsubscribe" -> "Empty"
      [] request = "ListPrompts" -> "ListPrompts"
      [] request = "GetPrompt" -> "GetPrompt"
      [] request = "ListTools" -> "ListTools"
      [] request = "CallTool" -> "CallTool"
      [] request = "SetLevel" -> "Empty"
      [] request = "Complete" -> "Empty"

\* handle_request: `service.method(params).await.map(ServerResult::Variant)`;
\* map leaves an Err as it is, and a panic of the method unwinds through
\* handle_request. The Complete arm is Ok(ServerResult::Empty(..)).
dispatch(request, outcome) ==
    IF ServiceMethod(request) = None
    THEN [request |-> request, called |-> None, outcome |-> "ok",
          variant |-> Some(ResultVariant(request))]
    ELSE [request |-> request, called |-> ServiceMethod(request), outcome |-> outcome,
          variant |-> IF outcome = "ok" THEN Some(ResultVariant(request)) ELSE None]

Dispatch(request, outcome) ==
    /\ Len(route_log) < MaxRoutes
    /\ route_log' = Append(route_log, dispatch(request, outcome))
    /\ UNCHANGED routeFrame

RouteNext == \E request \in ClientRequests, outcome \in MethodOutcomes : Dispatch(request, outcome)

(***************************************************************************)
(* BasicService::init (basic_service.rs:120-152), with the builder calls   *)
(* name and version (basic_service.rs:54-64) that precede serving.         *)
(***************************************************************************)
\* mcp_schema::LATEST_PROTOCOL_VERSION, a constant of the schema crate; the
\* string stands for its value.
LATEST_PROTOCOL_VERSION == "LATEST_PROTOCOL_VERSION"

ServiceNames == {"unnamed", "weather"}
ServiceVersions == {"0.1.0", "1.0.0"}

\* mcp_schema::InitializeParams as a client may send it: the protocol
\* version it speaks, the capabilities it claims and its name.
InitializeParams ==
    [protocol_version : {LATEST_PROTOCOL_VERSION, "2024-10-07", "bogus"},
     capabilities : [roots : BOOLEAN, sampling : BOOLEAN],
     client_info : {"client", "editor", "agent"}]

\* The capabilities lines 125-138 write into every result.
ServerCapabilities ==
    [experimental |-> None,
     logging |-> None,
     prompts |-> Some([list_changed |-> Some(FALSE)]),
     resources |-> Some([subscribe |-> Some(TRUE), list_changed |-> Some(FALSE)]),
     tools |-> Some([list_changed |-> Some(FALSE)])]

\* An init that refuses a client speaking another protocol version.
init_matching_version(params) ==
    IF params.protocol_version # LATEST_PROTOCOL_VERSION
    THEN [client_params |-> Some(params), outcome |-> "err", result |-> None]
    ELSE [client_params |-> Some(params), outcome |-> "ok",
          result |-> Some([capabilities |-> ServerCapabilities,
                           instructions |-> None,
                           protocol_version |-> LATEST_PROTOCOL_VERSION,
                           server_info |-> server_info])]
\* init: the parameter is `_request`, and the future is `async move
\* { Ok(result) }`; instructions is None, since nothing sets it.
init(params) ==
    [client_params |-> Some(params), outcome |-> "ok",
     result |-> Some([capabilities |-> ServerCapabilities,
                      instructions |-> None,
                      protocol_version |-> LATEST_PROTOCOL_VERSION,
                      server_info |-> server_info])]

\* BasicService::name (lines 60-64) and version (lines 54-58) take the
\* service by value: they come before the service is served.
ServiceName(n) ==
    /\ init_result = NoInit
    /\ server_info' = [server_info EXCEPT !.name = n]
    /\ UNCHANGED <<helloFrame, init_result>>

ServiceVersion(v) ==
    /\ init_result = NoInit
    /\ server_info' = [server_info EXCEPT !.version = v]
    /\ UNCHANGED <<helloFrame, init_result>>

Initialize(params) ==
    /\ init_result' = init(params)
    /\ UNCHANGED <<helloFrame, server_info>>

HelloNext ==
    \/ \E n \in ServiceNames : ServiceName(n)
    \/ \E v \in ServiceVersions : ServiceVersion(v)
    \/ \E params \in InitializeParams : Initialize(params)

(***************************************************************************)
(* McpClient (client.rs:166-495).                                          *)
(*                                                                         *)
(* The client is shared by the tasks that call it. A call is suspended at  *)
(* two places: at `self.initialized.lock().await`, until tokio's Mutex,    *)
(* which serves its waiters in the order they came, gives it the guard,    *)
(* and at `self.send_message(message).await`, until the server's answer    *)
(* or a failure of the transport. Its positions:                           *)
(*   "locking"  queued on the Mutex of initialized                         *)
(*   "sending"  its message is posted and not yet answered                 *)
(*   "done"     returned, with result "ok" or "err"                        *)
(***************************************************************************)
ClientOps == {"initialize", "list_tools", "call_tool", "ping"}

\* The message each method posts (lines 244, 304, 375, 427).
MessageOf(op) ==
    CASE op = "initialize" -> "initialize"
      [] op = "list_tools" -> "tools/list"
      [] op = "call_tool" -> "tools/call"
      [] op = "ping" -> "ping"

\* What the await of send_message gives: the response the method matches
\* for Ok, McpMessage::Error, another message, or Err of send_message
\* (lines 455-475).
Answers == {"expected", "error", "unexpected", "failed"}

\* Post of send_message (lines 453-460).
Post(i, op) == Append(outbox, [call |-> i, method |-> MessageOf(op), answered |-> FALSE])

\* A guard dropped before the request is posted.
ReleasedBeforeRequest(i) == 0
\* initialize keeps the guard it took at line 238 until it returns.
HeldAcrossRequest(i) == i

\* An ensure_initialized that lets every call through.
ensure_anything == TRUE
\* ensure_initialized (lines 487-495): the flag read under the lock.
ensure_initialized == initialized

\* A method is called. ping (lines 426-437) posts its message at once; the
\* other methods begin with the lock of initialized.
Call(op) ==
    LET i == Len(calls) + 1
    IN  /\ Len(calls) < MaxCalls
        /\ IF op = "ping"
           THEN /\ calls' = Append(calls, [op |-> op, pc |-> "sending", result |-> "none"])
                /\ outbox' = Post(i, op)
           ELSE /\ calls' = Append(calls, [op |-> op, pc |-> "locking", result |-> "none"])
                /\ UNCHANGED outbox
        /\ UNCHANGED <<cliFrame, initialized, initialized_guard>>

ClientLocking == {i \in DOMAIN calls : calls[i].pc = "locking"}

\* The Mutex gives the guard to the call at the head of its queue.
\* initialize (lines 237-248) returns Ok at once when the flag is set and
\* posts Initialize otherwise, the guard still held. list_tools and
\* call_tool (lines 301-305, 372-380) run ensure_initialized, whose guard is
\* a temporary dropped with the statement of line 488: they return Err when
\* the flag is not set and post their message otherwise.
ClientAcquire(i) ==
    /\ i \in ClientLocking
    /\ \A j \in ClientLocking : i <= j
    /\ initialized_guard = 0
    /\ IF calls[i].op = "initialize"
       THEN IF initialized
            THEN /\ calls' = [calls EXCEPT ![i].pc = "done", ![i].result = "ok"]
                 /\ UNCHANGED <<outbox, initialized_guard>>
            ELSE /\ calls' = [calls EXCEPT ![i].pc = "sending"]
                 /\ outbox' = Post(i, calls[i].op)
                 /\ initialized_guard' = HeldAcrossRequest(i)
       ELSE IF ensure_initialized
            THEN /\ calls' = [calls EXCEPT ![i].pc = "sending"]
                 /\ outbox' = Post(i, calls[i].op)
                 /\ UNCHANGED initialized_guard
            ELSE /\ calls' = [calls EXCEPT ![i].pc = "done", ![i].result = "err"]
                 /\ UNCHANGED <<outbox, initialized_guard>>
    /\ UNCHANGED <<cliFrame, initialized>>

\* send_message returns. Each method returns Ok for the response it expects
\* and Err for anything else; initialize sets the flag before it returns Ok
\* (line 252), and its guard is dropped when it returns.
ClientReceive(i, answer) ==
    /\ i \in DOMAIN calls
    /\ calls[i].pc = "sending"
    /\ calls' = [calls EXCEPT ![i].pc = "done",
                              ![i].result = IF answer = "expected" THEN "ok" ELSE "err"]
    /\ outbox' = [k \in DOMAIN outbox |->
                     IF outbox[k].call = i THEN [outbox[k] EXCEPT !.answered = TRUE]
                     ELSE outbox[k]]
    /\ initialized' = IF calls[i].op = "initialize" /\ answer = "expected" THEN TRUE
                      ELSE initialized
    /\ initialized_guard' = IF initialized_guard = i THEN 0 ELSE initialized_guard
    /\ UNCHANGED cliFrame

CliNext ==
    \/ \E op \in ClientOps : Call(op)
    \/ \E i \in 1..MaxCalls : ClientAcquire(i)
    \/ \E i \in 1..MaxCalls, answer \in Answers : ClientReceive(i, answer)

(***************************************************************************)
(* The prompt registry (registry/prompt.rs) and BasicService::get_prompt   *)
(* (basic_service.rs:326-332).                                             *)
(*                                                                         *)
(* PromptRegistry wraps a HandlerRegistry, as the ToolRegistry of          *)
(* registry/tool.rs does: get_prompt is HandlerRegistry::call on the name  *)
(* and the arguments of the request.                                       *)
(***************************************************************************)
\* The names prompts are registered under, and a name nothing is registered under.
PromptNames == {"greet"}
GetPromptNames == PromptNames \cup {"nope"}

\* PromptRegistry::register (prompt.rs:21-46), which ends in
\* HandlerRegistry::register (registry/mod.rs:91-93): HashMap::insert.
PromptRegister(name, h) ==
    /\ prompt_registry' = MapInsert(prompt_registry, name, h)
    /\ UNCHANGED <<coreVars, bldVars, codecVars, routeVars, helloVars, cliVars>>

\* A get_prompt that looks the prompt up before it asks for the state.
get_prompt_lookup_first(name, args, ok) ==
    IF name \notin DOMAIN prompt_registry
    THEN WithMessage(Result("prompt_registry", "getPrompt", name, "err", NotFound, 0, args,
                            "none", <<>>),
                     "Handler '" \o name \o "' not found")
    ELSE Result("prompt_registry", "getPrompt", name,
                IF state_set THEN "ok" ELSE "panic", 0, 0, args, "none", <<>>)
\* BasicService::get_prompt (basic_service.rs:326-332): the argument
\* self.state.clone().expect("state must be set") is evaluated before
\* PromptRegistry::get_prompt (prompt.rs:49-65) is entered. There the
\* arguments, the empty map standing for None, go to HandlerRegistry::call
\* (registry/mod.rs:96-116): a name the map does not hold gives 404, and
\* WrappedAsyncFn::run (registry/mod.rs:67-81) fails with 400 when the
\* arguments do not deserialise into the handler's input and calls the
\* handler otherwise; the handler's Err is the result as it is.
get_prompt(name, args, ok) ==
    LET input == IF args = NoArgs THEN "{}" ELSE args
    IN  IF ~state_set
        THEN Result("prompt_registry", "getPrompt", name, "panic", 0, 0, args, "none", <<>>)
        ELSE IF name \notin DOMAIN prompt_registry
        THEN WithMessage(Result("prompt_registry", "getPrompt", name, "err", NotFound, 0, args,
                                "none", <<>>),
                         "Handler '" \o name \o "' not found")
        ELSE IF ~from_value(prompt_registry[name], input)
        THEN WithMessage(Result("prompt_registry", "getPrompt", name, "err", BadArguments, 0,
                                args, "none", <<>>),
                         "Failed to deserialize arguments: " \o SerdeError)
        ELSE IF ~ok
        THEN Returned(WithMessage(Result("prompt_registry", "getPrompt", name, "err",
                                         HandlerError.code, prompt_registry[name], args, input,
                                         <<>>),
                                  HandlerError.message), ok)
        ELSE Returned(Result("prompt_registry", "getPrompt", name, "ok", 0,
                             prompt_registry[name], args, input, <<>>), ok)

GetPrompt(name, args, ok) ==
    /\ svc_result' = get_prompt(name, args, ok)
    /\ UNCHANGED <<svcFrame, state_set, tools, tool_registry, builder_tools, reg_log>>

\* The requests of a client that BasicService answers from its state, and
\* the registration of a prompt.
ServiceNext ==
    \/ \E u \in Uris : SubscribePanics(u)
    \/ \E u \in Uris : SubscribeNotFound(u)
    \/ \E u \in Uris : SubscribeOk(u)
    \/ \E u \in Uris : ReadResource(u)
    \/ \E name \in CallNames, args \in ArgValues, ok \in BOOLEAN :
           HandleRequest("callTool", name, args, ok)
    \/ \E name \in GetPromptNames, args \in ArgValues, ok \in BOOLEAN :
           GetPrompt(name, args, ok)
    \/ \E name \in PromptNames, h \in HandlerIds : PromptRegister(name, h)

(***************************************************************************)
(* Specifications: one per subsystem.                                      *)
(***************************************************************************)
\* The JSON-RPC message pump starts with the handlers McpImpl::new was given.
RpcInit ==
    /\ handlers \in {{}, {"tools/call"}}
    /\ reqs = <<>>
    /\ replies = <<>>
    /\ state_set = TRUE
    /\ handler_set = TRUE
    /\ template_resources = <<>>
    /\ resource_subscriptions = <<>>
    /\ tasks = [t \in TaskIds |-> UnbornTask]
    /\ next_task = 1
    /\ contents = [u \in FixedUris |-> 0]
    /\ set_pc = [u \in FixedUris |-> "idle"]
    /\ set_late = [u \in FixedUris |-> FALSE]
    /\ last_notification = NoNotification
    /\ owed = [u \in FixedUris |-> FALSE]
    /\ sub_result = NoSubResult
    /\ waited = [u \in FixedUris |-> FALSE]
    /\ srv_tools = {}
    /\ srv_lock = 0
    /\ srv_msgs = <<>>
    /\ srv_replies = <<>>
    /\ tools = <<>>
    /\ tool_registry = <<>>
    /\ builder_tools = <<>>
    /\ reg_log = <<>>
    /\ svc_result = NoResult
    /\ sse_kind = "McpImpl"
    /\ chan = <<>>
    /\ posts = 0
    /\ post_pc = "idle"
    /\ post_log = <<>>
    /\ listeners = [l \in SseListeners |-> NoListener]
    /\ builder = ResourceBuilder_new
    /\ built = NoBuilt
    /\ original = NoMessage
    /\ wire = None
    /\ decoded = None
    /\ route_log = <<>>
    /\ server_info = DefaultInfo
    /\ init_result = NoInit
    /\ initialized = FALSE
    /\ initialized_guard = 0
    /\ calls = <<>>
    /\ outbox = <<>>
    /\ prompt_registry = <<>>

\* McpServer::new(config, registry): the registry holds the tools registered
\* before the server was built.
SrvInit ==
    /\ srv_tools \in {{}, {"echo"}}
    /\ srv_lock = 0
    /\ srv_msgs = <<>>
    /\ srv_replies = <<>>
    /\ tools = <<>>
    /\ tool_registry = <<>>
    /\ builder_tools = <<>>
    /\ reg_log = <<>>
    /\ svc_result = NoResult
    /\ sse_kind = "McpImpl"
    /\ chan = <<>>
    /\ posts = 0
    /\ post_pc = "idle"
    /\ post_log = <<>>
    /\ listeners = [l \in SseListeners |-> NoListener]
    /\ handlers = {}
    /\ reqs = <<>>
    /\ replies = <<>>
    /\ state_set = TRUE
    /\ handler_set = TRUE
    /\ template_resources = <<>>
    /\ resource_subscriptions = <<>>
    /\ tasks = [t \in TaskIds |-> UnbornTask]
    /\ next_task = 1
    /\ contents = [u \in FixedUris |-> 0]
    /\ set_pc = [u \in FixedUris |-> "idle"]
    /\ set_late = [u \in FixedUris |-> FALSE]
    /\ last_notification = NoNotification
    /\ owed = [u \in FixedUris |-> FALSE]
    /\ sub_result = NoSubResult
    /\ waited = [u \in FixedUris |-> FALSE]
    /\ builder = ResourceBuilder_new
    /\ built = NoBuilt
    /\ original = NoMessage
    /\ wire = None
    /\ decoded = None
    /\ route_log = <<>>
    /\ server_info = DefaultInfo
    /\ init_result = NoInit
    /\ initialized = FALSE
    /\ initialized_guard = 0
    /\ calls = <<>>
    /\ outbox = <<>>
    /\ prompt_registry = <<>>

\* BasicService::new() followed by the builder calls made before serving,
\* and ToolRegistry::new(): both registries are empty.
SvcInit ==
    /\ state_set \in BOOLEAN
    /\ tools = <<>>
    /\ tool_registry = <<>>
    /\ builder_tools = <<>>
    /\ reg_log = <<>>
    /\ svc_result = NoResult
    /\ sse_kind = "McpImpl"
    /\ chan = <<>>
    /\ posts = 0
    /\ post_pc = "idle"
    /\ post_log = <<>>
    /\ listeners = [l \in SseListeners |-> NoListener]
    /\ handler_set = TRUE
    /\ template_resources = <<>>
    /\ resource_subscriptions = <<>>
    /\ tasks = [t \in TaskIds |-> UnbornTask]
    /\ next_task = 1
    /\ contents = [u \in FixedUris |-> 0]
    /\ set_pc = [u \in FixedUris |-> "idle"]
    /\ set_late = [u \in FixedUris |-> FALSE]
    /\ last_notification = NoNotification
    /\ owed = [u \in FixedUris |-> FALSE]
    /\ sub_result = NoSubResult
    /\ waited = [u \in FixedUris |-> FALSE]
    /\ handlers = {}
    /\ reqs = <<>>
    /\ replies = <<>>
    /\ srv_tools = {}
    /\ srv_lock = 0
    /\ srv_msgs = <<>>
    /\ srv_replies = <<>>
    /\ builder = ResourceBuilder_new
    /\ built = NoBuilt
    /\ original = NoMessage
    /\ wire = None
    /\ decoded = None
    /\ route_log = <<>>
    /\ server_info = DefaultInfo
    /\ init_result = NoInit
    /\ initialized = FALSE
    /\ initialized_guard = 0
    /\ calls = <<>>
    /\ outbox = <<>>
    /\ prompt_registry = <<>>

\* Either server, just started: nothing sent, nobody connected.
SseInit ==
    /\ sse_kind \in SseKinds
    /\ chan = <<>>
    /\ posts = 0
    /\ post_pc = "idle"
    /\ post_log = <<>>
    /\ listeners = [l \in SseListeners |-> NoListener]
    /\ state_set = TRUE
    /\ handler_set = TRUE
    /\ template_resources = <<>>
    /\ resource_subscriptions = <<>>
    /\ tasks = [t \in TaskIds |-> UnbornTask]
    /\ next_task = 1
    /\ contents = [u \in FixedUris |-> 0]
    /\ set_pc = [u \in FixedUris |-> "idle"]
    /\ set_late = [u \in FixedUris |-> FALSE]
    /\ last_notification = NoNotification
    /\ owed = [u \in FixedUris |-> FALSE]
    /\ sub_result = NoSubResult
    /\ waited = [u \in FixedUris |-> FALSE]
    /\ handlers = {}
    /\ reqs = <<>>
    /\ replies = <<>>
    /\ srv_tools = {}
    /\ srv_lock = 0
    /\ srv_msgs = <<>>
    /\ srv_replies = <<>>
    /\ tools = <<>>
    /\ tool_registry = <<>>
    /\ builder_tools = <<>>
    /\ reg_log = <<>>
    /\ svc_result = NoResult
    /\ builder = ResourceBuilder_new
    /\ built = NoBuilt
    /\ original = NoMessage
    /\ wire = None
    /\ decoded = None
    /\ route_log = <<>>
    /\ server_info = DefaultInfo
    /\ init_result = NoInit
    /\ initialized = FALSE
    /\ initialized_guard = 0
    /\ calls = <<>>
    /\ outbox = <<>>
    /\ prompt_registry = <<>>

\* The subscription engine.
SubSpec == SubInit /\ [][SubNext]_vars

\* The subscription engine while the host changes one resource only.
ChangedUris == {"a"}
UnsubNext ==
    \/ \E u \in Uris : SubscribePanics(u)
    \/ \E u \in Uris : SubscribeNotFound(u)
    \/ \E u \in Uris : SubscribeOk(u)
    \/ \E u \in Uris : Unsubscribe(u)
    \/ \E u \in Uris : ReadResource(u)
    \/ DropService
    \/ \E u \in ChangedUris : SetStore(u)
    \/ \E u \in ChangedUris : SetNotify(u)
    \/ \E t \in TaskIds : WatcherArm(t)
    \/ \E t \in TaskIds : WatcherNotify(t)
    \/ \E t \in TaskIds : WatcherPanics(t)
UnsubSpec == SubInit /\ [][UnsubNext]_vars

\* tokio schedules every runnable task, and a set() call that has stored its
\* contents goes on to notify_waiters.
SubFairSpec ==
    /\ SubSpec
    /\ \A t \in TaskIds : WF_vars(WatcherArm(t)) /\ WF_vars(WatcherNotify(t))
    /\ \A u \in FixedUris : WF_vars(SetNotify(u))

\* The JSON-RPC message pump.
RpcSpec == RpcInit /\ [][RpcNext]_vars

\* The MCP message pump.
SrvSpec == SrvInit /\ [][SrvNext]_vars

\* tokio schedules the task of every request: a task queued on the registry
\* Mutex gets the lock once it is free. Nothing makes a tool's future resolve.
SrvFairSpec == SrvSpec /\ \A i \in 1..MaxMsgs : WF_vars(SrvAcquire(i))

\* The tool registries and the requests served from them.
SvcSpec == SvcInit /\ [][SvcNext]_vars

\* The broadcast channel and the SSE connections.
SseSpec == SseInit /\ [][SseNext]_vars

\* The message handler's task is scheduled: once at tx.send it goes on when
\* the send lets it. Nothing is assumed of the listeners.
SseFairSpec == SseSpec /\ WF_vars(Send)

\* The streams of the listeners are polled as well: axum drives a stream
\* as long as its client reads.
SseLiveSpec ==
    /\ SseFairSpec
    /\ \A l \in SseListeners : WF_vars(DeliverInitial(l)) /\ WF_vars(Recv(l))

\* Resource::builder(): a builder with nothing set.
BldInit ==
    /\ builder = ResourceBuilder_new
    /\ built = NoBuilt
    /\ handlers = {}
    /\ reqs = <<>>
    /\ replies = <<>>
    /\ state_set = TRUE
    /\ handler_set = TRUE
    /\ template_resources = <<>>
    /\ resource_subscriptions = <<>>
    /\ tasks = [t \in TaskIds |-> UnbornTask]
    /\ next_task = 1
    /\ contents = [u \in FixedUris |-> 0]
    /\ set_pc = [u \in FixedUris |-> "idle"]
    /\ set_late = [u \in FixedUris |-> FALSE]
    /\ last_notification = NoNotification
    /\ owed = [u \in FixedUris |-> FALSE]
    /\ sub_result = NoSubResult
    /\ waited = [u \in FixedUris |-> FALSE]
    /\ srv_tools = {}
    /\ srv_lock = 0
    /\ srv_msgs = <<>>
    /\ srv_replies = <<>>
    /\ tools = <<>>
    /\ tool_registry = <<>>
    /\ builder_tools = <<>>
    /\ reg_log = <<>>
    /\ svc_result = NoResult
    /\ sse_kind = "McpImpl"
    /\ chan = <<>>
    /\ posts = 0
    /\ post_pc = "idle"
    /\ post_log = <<>>
    /\ listeners = [l \in SseListeners |-> NoListener]
    /\ original = NoMessage
    /\ wire = None
    /\ decoded = None
    /\ route_log = <<>>
    /\ server_info = DefaultInfo
    /\ init_result = NoInit
    /\ initialized = FALSE
    /\ initialized_guard = 0
    /\ calls = <<>>
    /\ outbox = <<>>
    /\ prompt_registry = <<>>

\* The resource builder.
BldSpec == BldInit /\ [][BldNext]_vars

\* A message of either type, about to be serialised.
CodecInit ==
    /\ original \in JsonRpcMessages \cup McpMessages
    /\ wire = None
    /\ decoded = None
    /\ handlers = {}
    /\ reqs = <<>>
    /\ replies = <<>>
    /\ state_set = TRUE
    /\ handler_set = TRUE
    /\ template_resources = <<>>
    /\ resource_subscriptions = <<>>
    /\ tasks = [t \in TaskIds |-> UnbornTask]
    /\ next_task = 1
    /\ contents = [u \in FixedUris |-> 0]
    /\ set_pc = [u \in FixedUris |-> "idle"]
    /\ set_late = [u \in FixedUris |-> FALSE]
    /\ last_notification = NoNotification
    /\ owed = [u \in FixedUris |-> FALSE]
    /\ sub_result = NoSubResult
    /\ waited = [u \in FixedUris |-> FALSE]
    /\ srv_tools = {}
    /\ srv_lock = 0
    /\ srv_msgs = <<>>
    /\ srv_replies = <<>>
    /\ tools = <<>>
    /\ tool_registry = <<>>
    /\ builder_tools = <<>>
    /\ reg_log = <<>>
    /\ svc_result = NoResult
    /\ sse_kind = "McpImpl"
    /\ chan = <<>>
    /\ posts = 0
    /\ post_pc = "idle"
    /\ post_log = <<>>
    /\ listeners = [l \in SseListeners |-> NoListener]
    /\ builder = ResourceBuilder_new
    /\ built = NoBuilt
    /\ route_log = <<>>
    /\ server_info = DefaultInfo
    /\ init_result = NoInit
    /\ initialized = FALSE
    /\ initialized_guard = 0
    /\ calls = <<>>
    /\ outbox = <<>>
    /\ prompt_registry = <<>>

\* The wire codec.
CodecSpec == CodecInit /\ [][CodecNext]_vars

\* A service that has handled no request.
RouteInit ==
    /\ route_log = <<>>
    /\ handlers = {}
    /\ reqs = <<>>
    /\ replies = <<>>
    /\ state_set = TRUE
    /\ handler_set = TRUE
    /\ template_resources = <<>>
    /\ resource_subscriptions = <<>>
    /\ tasks = [t \in TaskIds |-> UnbornTask]
    /\ next_task = 1
    /\ contents = [u \in FixedUris |-> 0]
    /\ set_pc = [u \in FixedUris |-> "idle"]
    /\ set_late = [u \in FixedUris |-> FALSE]
    /\ last_notification = NoNotification
    /\ owed = [u \in FixedUris |-> FALSE]
    /\ sub_result = NoSubResult
    /\ waited = [u \in FixedUris |-> FALSE]
    /\ srv_tools = {}
    /\ srv_lock = 0
    /\ srv_msgs = <<>>
    /\ srv_replies = <<>>
    /\ tools = <<>>
    /\ tool_registry = <<>>
    /\ builder_tools = <<>>
    /\ reg_log = <<>>
    /\ svc_result = NoResult
    /\ sse_kind = "McpImpl"
    /\ chan = <<>>
    /\ posts = 0
    /\ post_pc = "idle"
    /\ post_log = <<>>
    /\ listeners = [l \in SseListeners |-> NoListener]
    /\ builder = ResourceBuilder_new
    /\ built = NoBuilt
    /\ original = NoMessage
    /\ wire = None
    /\ decoded = None
    /\ server_info = DefaultInfo
    /\ init_result = NoInit
    /\ initialized = FALSE
    /\ initialized_guard = 0
    /\ calls = <<>>
    /\ outbox = <<>>
    /\ prompt_registry = <<>>

\* handle_request on any service.
RouteSpec == RouteInit /\ [][RouteNext]_vars

\* BasicService::new().
HelloInit ==
    /\ server_info = DefaultInfo
    /\ init_result = NoInit
    /\ handlers = {}
    /\ reqs = <<>>
    /\ replies = <<>>
    /\ state_set = TRUE
    /\ handler_set = TRUE
    /\ template_resources = <<>>
    /\ resource_subscriptions = <<>>
    /\ tasks = [t \in TaskIds |-> UnbornTask]
    /\ next_task = 1
    /\ contents = [u \in FixedUris |-> 0]
    /\ set_pc = [u \in FixedUris |-> "idle"]
    /\ set_late = [u \in FixedUris |-> FALSE]
    /\ last_notification = NoNotification
    /\ owed = [u \in FixedUris |-> FALSE]
    /\ sub_result = NoSubResult
    /\ waited = [u \in FixedUris |-> FALSE]
    /\ srv_tools = {}
    /\ srv_lock = 0
    /\ srv_msgs = <<>>
    /\ srv_replies = <<>>
    /\ tools = <<>>
    /\ tool_registry = <<>>
    /\ builder_tools = <<>>
    /\ reg_log = <<>>
    /\ svc_result = NoResult
    /\ sse_kind = "McpImpl"
    /\ chan = <<>>
    /\ posts = 0
    /\ post_pc = "idle"
    /\ post_log = <<>>
    /\ listeners = [l \in SseListeners |-> NoListener]
    /\ builder = ResourceBuilder_new
    /\ built = NoBuilt
    /\ original = NoMessage
    /\ wire = None
    /\ decoded = None
    /\ route_log = <<>>
    /\ initialized = FALSE
    /\ initialized_guard = 0
    /\ calls = <<>>
    /\ outbox = <<>>
    /\ prompt_registry = <<>>

\* The initialize handshake of BasicService.
HelloSpec == HelloInit /\ [][HelloNext]_vars

\* McpClient::new (client.rs:194-200): not initialized, the Mutex free.
CliInit ==
    /\ initialized = FALSE
    /\ initialized_guard = 0
    /\ calls = <<>>
    /\ outbox = <<>>
    /\ handlers = {}
    /\ reqs = <<>>
    /\ replies = <<>>
    /\ state_set = TRUE
    /\ handler_set = TRUE
    /\ template_resources = <<>>
    /\ resource_subscriptions = <<>>
    /\ tasks = [t \in TaskIds |-> UnbornTask]
    /\ next_task = 1
    /\ contents = [u \in FixedUris |-> 0]
    /\ set_pc = [u \in FixedUris |-> "idle"]
    /\ set_late = [u \in FixedUris |-> FALSE]
    /\ last_notification = NoNotification
    /\ owed = [u \in FixedUris |-> FALSE]
    /\ sub_result = NoSubResult
    /\ waited = [u \in FixedUris |-> FALSE]
    /\ srv_tools = {}
    /\ srv_lock = 0
    /\ srv_msgs = <<>>
    /\ srv_replies = <<>>
    /\ tools = <<>>
    /\ tool_registry = <<>>
    /\ builder_tools = <<>>
    /\ reg_log = <<>>
    /\ svc_result = NoResult
    /\ sse_kind = "McpImpl"
    /\ chan = <<>>
    /\ posts = 0
    /\ post_pc = "idle"
    /\ post_log = <<>>
    /\ listeners = [l \in SseListeners |-> NoListener]
    /\ builder = ResourceBuilder_new
    /\ built = NoBuilt
    /\ original = NoMessage
    /\ wire = None
    /\ decoded = None
    /\ route_log = <<>>
    /\ server_info = DefaultInfo
    /\ init_result = NoInit
    /\ prompt_registry = <<>>

\* The client.
CliSpec == CliInit /\ [][CliNext]_vars

\* The tools BasicService was built with: none, or one (BasicService::tool,
\* basic_service.rs:75-79).
BuiltWith == {<<>>, <<[on |-> "tool_registry", name |-> "echo", handler |-> 1]>>}
\* A BasicService as its builder methods leave it: with or without state
\* (basic_service.rs:49-52), with or without a notification handler
\* (basic_service.rs:113-118), and with no subscription.
ServiceInit ==
    /\ state_set \in BOOLEAN
    /\ handler_set \in BOOLEAN
    /\ template_resources \in {<<>>, <<"tpl">>}
    /\ reg_log \in BuiltWith
    /\ tool_registry = IF reg_log = <<>> THEN <<>> ELSE MapInsert(<<>>, reg_log[1].name, reg_log[1].handler)
    /\ handlers = {}
    /\ reqs = <<>>
    /\ replies = <<>>
    /\ resource_subscriptions = <<>>
    /\ tasks = [t \in TaskIds |-> UnbornTask]
    /\ next_task = 1
    /\ contents = [u \in FixedUris |-> 0]
    /\ set_pc = [u \in FixedUris |-> "idle"]
    /\ set_late = [u \in FixedUris |-> FALSE]
    /\ last_notification = NoNotification
    /\ owed = [u \in FixedUris |-> FALSE]
    /\ sub_result = NoSubResult
    /\ waited = [u \in FixedUris |-> FALSE]
    /\ srv_tools = {}
    /\ srv_lock = 0
    /\ srv_msgs = <<>>
    /\ srv_replies = <<>>
    /\ tools = <<>>
    /\ builder_tools = <<>>
    /\ svc_result = NoResult
    /\ sse_kind = "McpImpl"
    /\ chan = <<>>
    /\ posts = 0
    /\ post_pc = "idle"
    /\ post_log = <<>>
    /\ listeners = [l \in SseListeners |-> NoListener]
    /\ builder = ResourceBuilder_new
    /\ built = NoBuilt
    /\ original = NoMessage
    /\ wire = None
    /\ decoded = None
    /\ route_log = <<>>
    /\ server_info = DefaultInfo
    /\ init_result = NoInit
    /\ initialized = FALSE
    /\ initialized_guard = 0
    /\ calls = <<>>
    /\ outbox = <<>>
    /\ prompt_registry = <<>>

\* BasicService answering the requests that need its state.
ServiceSpec == ServiceInit /\ [][ServiceNext]_vars

(***************************************************************************)
(* The subscription engine: claims.                                        *)
(***************************************************************************)

\* C1: at most one watcher task that has not been aborted runs for any uri,
\* and for a subscribed uri it is the task recorded in the subscription map:
\* subscribing a subscribed uri again cancels the watcher it replaces.
C1_OneWatcherPerUri ==
    \A u \in FixedUris :
        /\ Cardinality(WatchersOf(u)) <= 1
        /\ Subscribed(u) => WatchersOf(u) = {resource_subscriptions[u]}

\* C2: no resourceUpdated{uri} reaches the notification handler for a change
\* made after unsubscribe(uri) returned, as long as uri is not subscribed
\* again, whatever subscribe calls came before.
C2_NoNotificationAfterUnsubscribe ==
    ~last_notification.late

\* C3: while uri stays subscribed, every set() called after subscribe(uri)
\* returned is eventually followed by a resourceUpdated{uri} notification.
C3_SetEventuallyNotified ==
    \A u \in FixedUris : owed[u] ~> ~owed[u]

\* The service was built with its state and its notification handler.
Configured == state_set /\ handler_set

\* C25: resource lookup gives error code 404 for every uri that equals no
\* registered fixed uri and matches no registered template, whatever is
\* registered, and readResource and subscribe both report that error.
C25_UnknownUriNotFound ==
    (/\ Configured
     /\ sub_result.request \in {"subscribe", "readResource"}
     /\ sub_result.uri \in UnknownUris) =>
        sub_result.outcome = "err404"

\* A call of subscribe(u), whatever its outcome.
SubscribeStep(u) == SubscribePanics(u) \/ SubscribeNotFound(u) \/ SubscribeOk(u)

\* C26: subscribe(uri) for a uri that resolves to no resource returns error
\* 404, spawns no watcher task and leaves the subscription map unchanged.
C26_SubscribeUnknownIsNotFound ==
    [][\A u \in UnknownUris :
           (Configured /\ SubscribeStep(u)) =>
               /\ sub_result'.outcome = "err404"
               /\ UNCHANGED <<tasks, next_task, resource_subscriptions>>]_vars

\* C27: unsubscribe(uri) for a uri that is not subscribed returns an empty
\* result, leaves the subscription map unchanged and stops no watcher; every
\* unsubscribe leaves the watchers of the other uris alone and the uri
\* unsubscribed, so that a second unsubscribe of it is the case above.
C27_UnsubscribeUnsubscribedIsNoOp ==
    [][\A u \in Uris :
           Unsubscribe(u) =>
               /\ sub_result'.outcome = "ok"
               /\ ~Subscribed(u) => UNCHANGED <<resource_subscriptions, tasks, next_task>>
               /\ u \notin DOMAIN resource_subscriptions'
               /\ \A v \in DOMAIN resource_subscriptions \ {u} :
                      /\ v \in DOMAIN resource_subscriptions'
                      /\ resource_subscriptions'[v] = resource_subscriptions[v]
               /\ \A t \in TaskIds : tasks[t].uri # u => tasks'[t] = tasks[t]]_vars

\* A uri that was never subscribed has been unsubscribed while another uri
\* is subscribed and its watcher runs.
C27_Witness ==
    /\ sub_result.request = "unsubscribe"
    /\ sub_result.uri \in UnknownUris
    /\ \E v \in DOMAIN resource_subscriptions : Live(resource_subscriptions[v])

\* C28: when the service is dropped, every watcher task it spawned is
\* aborted: once it is dropped no watcher is alive, and no resourceUpdated
\* notification is emitted after the drop.
C28_DropAbortsWatchers ==
    /\ Dropped => \A t \in TaskIds : ~Live(t)
    /\ ~last_notification.dropped

\* C29: every resourceUpdated{uri} a watcher emits follows at least one
\* wait_for_change(uri) completed since the preceding resourceUpdated{uri};
\* none is emitted before the first wait completes.
C29_NotificationFollowsWait ==
    ~last_notification.unwaited

\* C37: if a watcher task fails (the notification handler panics inside
\* it), its subscription is dropped: afterwards the uri is no longer in the
\* subscription map and no watcher task for it is alive.
C37_FailedWatcherUnsubscribed ==
    [][\A t \in TaskIds :
           WatcherPanics(t) =>
               /\ tasks[t].uri \notin DOMAIN resource_subscriptions'
               /\ \A w \in TaskIds : ~(Live(w)' /\ tasks'[w].uri = tasks[t].uri)]_vars

\* A resourceUpdated is emitted by a call of the notification handler,
\* whether the handler returns or panics.
Emits(t) == WatcherNotify(t) \/ WatcherPanics(t)

\* C39: MemoryResource::set stores the new contents before it wakes the
\* waiters: whenever a resourceUpdated notification caused by set(c) is
\* emitted, a read of the resource started afterwards returns c or the
\* contents of a later set, never older contents.
C39_ReadAfterNotificationIsFresh ==
    [][/\ \A t \in TaskIds, u \in FixedUris :
              (Emits(t) /\ tasks[t].uri = u) =>
                  (tasks[t].cause >= 1 /\ read(u)' >= tasks[t].cause)
       /\ \A u \in FixedUris : read(u)' >= read(u)]_vars

C39_Witness ==
    /\ last_notification.uri = "a"
    /\ sub_result = SubResult("readResource", "a", "ok")
    /\ read("a") = MaxSets
    /\ \E t \in TaskIds : tasks[t].pc = "woken" /\ tasks[t].cause = 1

(***************************************************************************)
(* The JSON-RPC message pump: claims.                                      *)
(***************************************************************************)
\* The replies emitted for request i.
RepliesTo(i) == {k \in DOMAIN replies : replies[k].req = i}
\* The replies emitted for request i that carry its id.
RepliesWithIdOf(i) == {k \in RepliesTo(i) : replies[k].id = reqs[i].id}
Resolved(i) == reqs[i].st = "done"

\* C4: a request with id R that is not cancelled gets exactly one response
\* carrying id R: never two, and one once its dispatch has resolved.
C4_ExactlyOneResponse ==
    \A i \in DOMAIN reqs :
        (reqs[i].id # None /\ ~reqs[i].cancelled) =>
            /\ Cardinality(RepliesWithIdOf(i)) <= 1
            /\ Resolved(i) => Cardinality(RepliesWithIdOf(i)) = 1

\* C5: a request that a cancelled{requestId: R} notification found in flight
\* is never answered with a response carrying id R.
C5_CancelledNeverAnswered ==
    \A i \in DOMAIN reqs : reqs[i].cancelled => RepliesWithIdOf(i) = {}

\* C6: the requests in flight are exactly those whose dispatch has started
\* and has neither completed nor been cancelled.
C6_InFlightExact ==
    InFlight = {i \in DOMAIN reqs : ~Resolved(i) /\ ~reqs[i].cancelled}

\* C7: a request whose id is the id of a request still in flight is rejected
\* with code -32600 and not dispatched, so no two requests in flight share
\* an id.
C7_DuplicateRejected ==
    /\ \A i \in DOMAIN reqs :
           reqs[i].dup =>
               /\ Resolved(i)
               /\ \A k \in RepliesTo(i) : replies[k].code = -32600
    /\ \A i, j \in InFlight :
           (reqs[i].id # None /\ reqs[i].id = reqs[j].id) => i = j

\* C8: every reply carries the id of the request it answers, whether a
\* success, an error, or the reply of a registered handler.
C8_ReplyCarriesRequestId ==
    \A k \in DOMAIN replies : replies[k].id = reqs[replies[k].req].id

\* C9: a request whose jsonrpc member is not "2.0" is answered with error
\* code 400 carrying its id and reaches no method arm and no handler.
C9_WrongVersionRejected ==
    \A i \in DOMAIN reqs :
        reqs[i].jsonrpc # "2.0" =>
            /\ Resolved(i)
            /\ \A k \in RepliesTo(i) :
                   /\ replies[k].code = 400
                   /\ replies[k].id = reqs[i].id
                   /\ replies[k].by = "none"

\* C11: a message without an id (a notification) never produces a response:
\* nothing is returned for it and nothing is broadcast.
C11_NotificationNotAnswered ==
    \A k \in DOMAIN replies : reqs[replies[k].req].id # None

(***************************************************************************)
(* The MCP message pump: claims.                                           *)
(***************************************************************************)
\* C10: a message whose method is not recognised is answered with an error
\* of code -32601 that carries the id of the message, and nothing is invoked
\* for it.
C10_UnknownMethodEchoesId ==
    \A k \in DOMAIN srv_replies :
        LET m == srv_msgs[srv_replies[k].req]
            reply == srv_replies[k].msg
        IN  (m.method \notin SrvHandled /\ m.id # None) =>
                /\ reply.method = "error"
                /\ reply.params.code = -32601
                /\ "id" \in DOMAIN reply
                /\ reply.id = m.id

\* C30: requests are dispatched concurrently: a request received while the
\* handler of an earlier tools/call has not completed is dispatched all the
\* same, whether or not that handler ever completes.
C30_LaterRequestsDispatched ==
    \A i \in 1..MaxMsgs :
        (i \in DOMAIN srv_msgs /\ srv_msgs[i].st = "locking")
            ~> (i \in DOMAIN srv_msgs /\ srv_msgs[i].st # "locking")

InitializeReplies == {k \in DOMAIN srv_replies : srv_msgs[srv_replies[k].req].method = "initialize"}

\* C35: McpServer::handle_initialize answers Initialized exactly when the
\* client's protocolVersion equals the server's configured protocol version,
\* and answers an Error message for every other version.
C35_InitializedIffVersionMatches ==
    \A k \in InitializeReplies :
        LET version == srv_msgs[srv_replies[k].req].params
            reply == srv_replies[k].msg
        IN  /\ reply.method = "initialized" <=> version = ProtocolVersion
            /\ version # ProtocolVersion => reply.method = "error"

C35_Witness ==
    \E k, l \in InitializeReplies :
        /\ srv_replies[k].msg.method = "initialized"
        /\ srv_replies[l].msg.method = "error"

(***************************************************************************)
(* The tool registries and handle_request: claims.                         *)
(***************************************************************************)
\* The register calls made on a registry before the last operation, and the
\* names they registered.
RegistersBefore(on, at) == {i \in 1..at : reg_log[i].on = on}
RegisteredNames(on, at) == {reg_log[i].name : i \in RegistersBefore(on, at)}
\* The elements of a sequence.
Range(seq) == {seq[i] : i \in DOMAIN seq}

\* C12: a setLevel request fails with error code 501 as an error value; the
\* call does not panic.
C12_SetLevelNotImplemented ==
    svc_result.request = "setLevel" =>
        /\ svc_result.outcome = "err"
        /\ svc_result.code = 501

\* C18: after every sequence of register calls, listTools returns exactly
\* the tools registered, one entry per unique name and no other entry.
C18_ListToolsExact ==
    svc_result.request = "listTools" =>
        /\ svc_result.outcome = "ok"
        /\ Range(svc_result.list) = RegisteredNames(svc_result.on, svc_result.at)
        /\ Len(svc_result.list) = Cardinality(RegisteredNames(svc_result.on, svc_result.at))

\* The handler of the last register call made for a name on a registry.
LastRegister(on, name, at) ==
    CHOOSE i \in RegistersBefore(on, at) :
        /\ reg_log[i].name = name
        /\ \A j \in RegistersBefore(on, at) : reg_log[j].name = name => j <= i
LastHandler(on, name, at) == reg_log[LastRegister(on, name, at)].handler
\* A registry holds, under every name registered, the handler registered last.
HoldsLastRegistered(registry, on) ==
    /\ DOMAIN registry = RegisteredNames(on, Len(reg_log))
    /\ \A name \in DOMAIN registry : registry[name] = LastHandler(on, name, Len(reg_log))

\* C19: register inserts the tool or replaces the one registered under the
\* same name and leaves the other names alone; callTool(name) runs the
\* handler registered last under that name, with the arguments given, and
\* runs nothing for a name never registered.
C19_RegisterReplacesByName ==
    /\ HoldsLastRegistered(tools, "tools")
    /\ HoldsLastRegistered(tool_registry, "tool_registry")
    /\ svc_result.request = "callTool" =>
           IF svc_result.name \in RegisteredNames(svc_result.on, svc_result.at)
           THEN /\ svc_result.outcome = "ok" => svc_result.by # 0
                /\ svc_result.by # 0 =>
                       /\ svc_result.by = LastHandler(svc_result.on, svc_result.name, svc_result.at)
                       /\ svc_result.given # NoArgs => svc_result.args = svc_result.given
           ELSE svc_result.by = 0 /\ svc_result.outcome # "ok"

\* A tool registered twice with different handlers has been called, and the
\* handler registered last ran.
C19_Witness ==
    /\ svc_result.request = "callTool"
    /\ svc_result.by # 0
    /\ \E i \in RegistersBefore(svc_result.on, svc_result.at) :
           /\ reg_log[i].name = svc_result.name
           /\ reg_log[i].handler # svc_result.by

\* The place a name holds in a list, 0 when it is absent.
PlaceIn(list, name) ==
    IF name \in Range(list) THEN CHOOSE i \in DOMAIN list : list[i] = name ELSE 0
\* The first register call made for a name on a registry.
FirstRegister(on, name, at) ==
    CHOOSE i \in RegistersBefore(on, at) :
        /\ reg_log[i].name = name
        /\ \A j \in RegistersBefore(on, at) : reg_log[j].name = name => i <= j

\* C20: listTools returns the tools in insertion order: a tool registered
\* earlier comes before every tool registered later.
C20_ListToolsInInsertionOrder ==
    (svc_result.request = "listTools" /\ svc_result.outcome = "ok") =>
        \A a, b \in Range(svc_result.list) :
            FirstRegister(svc_result.on, a, svc_result.at)
                    < FirstRegister(svc_result.on, b, svc_result.at)
                => PlaceIn(svc_result.list, a) < PlaceIn(svc_result.list, b)

\* The last operation was a tool call, made directly on a registry or
\* through the server that serves it.
ToolCalled == svc_result.request \in {"callTool", "tools/call"}
\* The name called was registered with the registry called.
CalledRegistered == svc_result.name \in RegisteredNames(svc_result.on, svc_result.at)

\* C21: callTool with a name that is not registered returns error code 404
\* with the message "Tool 'X' not found", X being the name requested, and
\* invokes no handler.
C21_UnknownToolNotFound ==
    (ToolCalled /\ ~CalledRegistered /\ svc_result.outcome # "panic") =>
        /\ svc_result.outcome = "err"
        /\ svc_result.code = 404
        /\ svc_result.message = "Tool '" \o svc_result.name \o "' not found"
        /\ svc_result.by = 0

\* A string begins with a prefix.
StartsWith(string, prefix) ==
    Len(string) >= Len(prefix) /\ SubSeq(string, 1, Len(prefix)) = prefix
\* The arguments given do not deserialise into the input type of the handler
\* registered under the name called.
ArgumentsRejected ==
    /\ CalledRegistered
    /\ svc_result.given # NoArgs
    /\ ~from_value(LastHandler(svc_result.on, svc_result.name, svc_result.at), svc_result.given)

\* C22: when the arguments of a call cannot be deserialised into the
\* handler's input type, a missing required field included, the call returns
\* error code 400 with a message starting "Failed to deserialize arguments: "
\* and the user handler is not invoked.
C22_BadArgumentsRejected ==
    (/\ svc_result.request = "callTool"
     /\ svc_result.on \in {"tool_registry", "builder"}
     /\ svc_result.on = "tool_registry" => state_set
     /\ ArgumentsRejected) =>
        /\ svc_result.outcome = "err"
        /\ svc_result.code = 400
        /\ StartsWith(svc_result.message, "Failed to deserialize arguments: ")
        /\ svc_result.by = 0

\* The last operation produced the reply to a client's request: the result
\* of handle_request, or the message McpServer answers tools/call with.
RepliedToClient ==
    \/ svc_result.request = "tools/call"
    \/ svc_result.on = "tool_registry"

\* C23: when a user handler returns an error with code c and message m, the
\* reply sent to the client is an error with exactly code c and message m.
C23_HandlerErrorPreserved ==
    (RepliedToClient /\ svc_result.returned = "err") =>
        /\ svc_result.outcome = "err"
        /\ svc_result.code = HandlerError.code
        /\ svc_result.message = HandlerError.message

\* C24: a callTool request without arguments invokes the handler with the
\* empty object: a handler whose input type allows the empty object runs,
\* with the input it would get from arguments given as {}.
C24_NoArgumentsIsEmptyObject ==
    (/\ ToolCalled
     /\ svc_result.given = NoArgs
     /\ svc_result.outcome # "panic"
     /\ CalledRegistered
     /\ AcceptsEmpty(LastHandler(svc_result.on, svc_result.name, svc_result.at))) =>
        /\ svc_result.by # 0
        /\ svc_result.args = "{}"

(***************************************************************************)
(* The broadcast channel and the SSE connections: claims.                  *)
(***************************************************************************)
\* The responses the handler has sent and returned.
Sent == DOMAIN post_log
\* The places response n holds in the channel's history.
PlacesOf(n) == {i \in DOMAIN chan : chan[i] = n}
\* Listener l has been delivered a message event carrying response n.
Observed(l, n) ==
    \E i \in DOMAIN listeners[l].events :
        /\ listeners[l].events[i].event = "message"
        /\ listeners[l].events[i].data = n
\* Listener l has read the channel past every place of response n.
ReadPast(l, n) == \A i \in PlacesOf(n) : i <= listeners[l].next

C14_EndpointEventFirst ==
    \A l \in SseListeners :
        LET events == listeners[l].events
        IN  events # <<>> =>
                /\ events[1].event = "endpoint"
                /\ events[1].data = "/api/message"
                /\ \A i \in 2..Len(events) : events[i].event = "message"

\* C15: sending to the broadcast channel never blocks the handler: a handler
\* that has reached the send completes it and returns its reply, whether the
\* channel is full, a listener never reads, or no listener is connected.
C15_SendNeverBlocks ==
    \A n \in 1..MaxPosts :
        (posts = n /\ post_pc = "sending") ~> (n \in Sent /\ post_pc = "idle")

\* A reply was returned although a connected listener has more than the
\* channel's capacity unread.
C15_Witness ==
    /\ post_pc = "idle"
    /\ posts \in Sent
    /\ \E l \in Connected :
           /\ listeners[l].next = listeners[l].start
           /\ Len(chan) - listeners[l].next > ChannelCapacity

\* C16: a listener that has fallen more than the channel's capacity behind
\* loses its oldest undelivered messages only: it stays connected, its
\* stream does not end.
C16_LaggedListenerStaysConnected ==
    \A l \in SseListeners : listeners[l].lagged => listeners[l].pc = "stream"

\* Listener k had connected and left, by disconnecting or by the end of
\* its stream, before response n was sent.
LeftBefore(k, n) ==
    /\ listeners[k].pc \in {"gone", "ended"}
    /\ k \notin post_log[n]
    /\ \E i \in PlacesOf(n) : listeners[k].start < i

AllRequiredSet == builder.name # None /\ builder.uri # None /\ builder.source # None

\* C31: build() on a resource builder fails with error code 500 whenever
\* name, uri or source was not set, and returns a resource only when all of
\* them were set.
C31_BuildRequiresNameUriSource ==
    ~Unbuilt =>
        /\ ~AllRequiredSet => (built.outcome = "err" /\ built.code = 500)
        /\ built.outcome = "ok" => AllRequiredSet

(***************************************************************************)
(* The wire codec: claims.                                                 *)
(***************************************************************************)
\* JSON-RPC 2.0: params, when present, is a structured value; a response has
\* either a result or an error.
StructuredOrAbsent(option) == option = None \/ Unwrap(option).t = "object"
Valid(m) ==
    /\ m.type = "JsonRpcMessage"
    /\ m.jsonrpc = "2.0"
    /\ m.variant \in {"Request", "Notification"} => StructuredOrAbsent(m.params)
    /\ m.variant = "Response" => (m.result = None) # (m.error = None)

\* C32: for every valid JSON-RPC message m (request, response or
\* notification), decoding the encoding of m yields m again: the same
\* variant with the same fields.
C32_DecodeInvertsEncode ==
    (decoded # None /\ Valid(original)) =>
        /\ Unwrap(decoded).type = original.type
        /\ Unwrap(decoded).variant = original.variant
        /\ Unwrap(decoded) = original

(***************************************************************************)
(* handle_request: claims.                                                 *)
(***************************************************************************)
\* The service method and the result variant of each method discriminator.
MethodAndVariant ==
    [Initialize |-> <<"init", "Initialize">>,
     Ping |-> <<"ping", "Empty">>,
     ListResources |-> <<"list_resources", "ListResources">>,
     ListResourceTemplates |-> <<"list_resource_templates", "ListResourceTemplates">>,
     ReadResource |-> <<"read_resource", "ReadResource">>,
     Subscribe |-> <<"subscribe", "Empty">>,
     Unsubscribe |-> <<"unsubscribe", "Empty">>,
     ListPrompts |-> <<"list_prompts", "ListPrompts">>,
     GetPrompt |-> <<"get_prompt", "GetPrompt">>,
     ListTools |-> <<"list_tools", "ListTools">>,
     CallTool |-> <<"call_tool", "CallTool">>,
     SetLevel |-> <<"set_level", "Empty">>]

\* C33: handle_request routes every request to the service method of its
\* method discriminator and wraps the value the method returns in the result
\* variant of that method; what the method returns as an error stays an
\* error; a complete request calls no service method and always yields an
\* empty result.
C33_RoutedByDiscriminator ==
    \A i \in DOMAIN route_log :
        LET r == route_log[i]
        IN  IF r.request = "Complete"
            THEN r.called = None /\ r.outcome = "ok" /\ r.variant = Some("Empty")
            ELSE /\ r.called = Some(MethodAndVariant[r.request][1])
                 /\ r.outcome = "ok" => r.variant = Some(MethodAndVariant[r.request][2])
                 /\ r.outcome # "ok" => r.variant = None

C33_Witness ==
    /\ Len(route_log) = MaxRoutes
    /\ route_log[1].request = "Complete"
    /\ route_log[2].request = "SetLevel"
    /\ route_log[2].outcome = "ok"

(***************************************************************************)
(* BasicService::init: claims.                                             *)
(***************************************************************************)
\* C34: BasicService initialize returns the same result for every client
\* params: capabilities prompts.listChanged=false, resources.subscribe=true,
\* resources.listChanged=false, tools.listChanged=false, the server's
\* protocol version and the server info; it never fails because of the
\* client's protocol version or capabilities.
C34_InitializeIgnoresClientParams ==
    init_result # NoInit =>
        /\ init_result.outcome = "ok"
        /\ LET result == Unwrap(init_result.result)
           IN  /\ result.capabilities.prompts = Some([list_changed |-> Some(FALSE)])
               /\ result.capabilities.resources =
                      Some([subscribe |-> Some(TRUE), list_changed |-> Some(FALSE)])
               /\ result.capabilities.tools = Some([list_changed |-> Some(FALSE)])
               /\ result.protocol_version = LATEST_PROTOCOL_VERSION
               /\ result.server_info = server_info

C34_Witness ==
    /\ init_result.outcome = "ok"
    /\ Unwrap(init_result.client_params).protocol_version = "bogus"
    /\ Unwrap(init_result.client_params).capabilities.sampling
    /\ server_info.name = "weather"

(***************************************************************************)
(* The client: claims.                                                     *)
(***************************************************************************)
NeedInitialized == {"list_tools", "call_tool"}
InitializeSucceeded ==
    \E j \in DOMAIN calls : calls[j].op = "initialize" /\ calls[j].result = "ok"
PostedBy(i) == {k \in DOMAIN outbox : outbox[k].call = i}

\* C36: list_tools and call_tool return an error and send no message to the
\* server unless an earlier initialize call has succeeded; ping is sent
\* whether or not the client is initialized; the initialized flag never goes
\* back from true to false.
C36_InitializedBeforeToolCalls ==
    [][/\ \A i \in 1..MaxCalls :
              (ClientAcquire(i) /\ calls[i].op \in NeedInitialized /\ ~InitializeSucceeded) =>
                  /\ calls'[i].pc = "done"
                  /\ calls'[i].result = "err"
                  /\ outbox' = outbox
       /\ \A k \in DOMAIN outbox' :
              outbox'[k].method \in {"tools/list", "tools/call"} => InitializeSucceeded
       /\ Call("ping") =>
              /\ Len(outbox') = Len(outbox) + 1
              /\ outbox'[Len(outbox')].method = "ping"
       /\ initialized => initialized']_vars

C36_Witness ==
    /\ Len(calls) = 3
    /\ calls[1].op = "call_tool" /\ calls[1].result = "err" /\ PostedBy(1) = {}
    /\ calls[2].op = "ping" /\ PostedBy(2) # {}
    /\ calls[3].op = "initialize" /\ calls[3].result = "ok" /\ PostedBy(3) # {}
    /\ PostedBy(2) = {1}
    /\ initialized

InitializePosted(box) == {k \in DOMAIN box : box[k].method = "initialize"}
InitializeInFlight(box) == {k \in InitializePosted(box) : ~box[k].answered}

\* C38: concurrent calls of initialize are serialized by the mutex of
\* initialized, which is held across the request: at most one Initialize
\* message is in flight at a time; once one call has succeeded no later or
\* concurrent call sends another Initialize message; a failed initialize
\* leaves the client uninitialized and the mutex free, and the next call to
\* get the mutex sends the request again.
C38_InitializeSerialized ==
    [][/\ Cardinality(InitializeInFlight(outbox')) <= 1
       /\ InitializeSucceeded => InitializePosted(outbox') = InitializePosted(outbox)
       /\ \A i \in 1..MaxCalls, answer \in Answers \ {"expected"} :
              (ClientReceive(i, answer) /\ calls[i].op = "initialize") =>
                  /\ calls'[i].result = "err"
                  /\ ~initialized'
                  /\ initialized_guard' = 0
       /\ \A i \in 1..MaxCalls :
              (ClientAcquire(i) /\ calls[i].op = "initialize" /\ ~InitializeSucceeded) =>
                  /\ PostedBy(i)' # {}
                  /\ InitializeInFlight(outbox') = PostedBy(i)']_vars

C38_Witness ==
    /\ Len(calls) = 3
    /\ \A i \in 1..3 : calls[i].op = "initialize"
    /\ calls[1].result = "err"
    /\ calls[2].pc = "sending"
    /\ calls[3].pc = "locking"
    /\ Cardinality(InitializePosted(outbox)) = 2


(***************************************************************************)
(* BasicService without state or notification handler: claims.             *)
(***************************************************************************)
\* C40: on a BasicService built without state, readResource, callTool,
\* getPrompt and subscribe panic instead of returning an error value, and
\* subscribe also panics when no notification handler has been installed,
\* whatever the uri or the name asked for, a uri that resolves to no resource
\* included: the checks run before any lookup.
C40_PanicsWithoutStateOrHandler ==
    /\ (~state_set /\ sub_result.request \in {"subscribe", "readResource"}) =>
           sub_result.outcome = "panic"
    /\ (~state_set /\ svc_result.request \in {"callTool", "getPrompt"}) =>
           svc_result.outcome = "panic"
    /\ (~handler_set /\ sub_result.request = "subscribe") =>
           sub_result.outcome = "panic"

\* On a service without state, subscribe has panicked on a uri that resolves
\* to no resource and getPrompt on a name that no prompt has.
C40_Witness ==
    /\ ~state_set /\ handler_set
    /\ template_resources = <<>>
    /\ sub_result = SubResult("subscribe", "x", "panic")
    /\ svc_result.request = "getPrompt"
    /\ svc_result.name = "nope"
    /\ svc_result.outcome = "panic"
====
